---- MODULE Spec2Model ----
(***************************************************************************)
(* Model of miao (src/src/main.rs): the control plane that synthesizes the *)
(* sing-box configuration, supervises the single sing-box child process    *)
(* behind the SING_PROCESS mutex and serves the HTTP API.                  *)
(*                                                                         *)
(* Task 0 is main(); tasks 1..NumTasks are concurrently running HTTP       *)
(* request handlers.  Every action is one run of a task from one await     *)
(* point of the Rust code to the next.  A request is taken to arrive when  *)
(* its handler can run up to its second await point.                       *)
(***************************************************************************)
EXTENDS Integers, Sequences, FiniteSets, TLC

\* ------------------------------------------------------------------ bounds
NumTasks == 2
MaxSpawn == 2
MaxExitCode == 1
MaxNodes == 2
MaxFeedLen == 2
MaxMutations == 2

\* ------------------------------------------------------- program constants
PROBE_ATTEMPTS == 3
STOP_POLLS == 30

\* ----------------------------------------------------------------- options
None == << >>
Some(x) == << x >>

Main == 0
Tasks == 1..NumTasks
Procs == 0..NumTasks
Pids == 1..MaxSpawn
NoProc == 0
Free == -1

\* --------------------------------------------------------- synthesis data
\* An entry of Config.nodes: a string that parses as JSON (valid) or not, with
\* the "type" and the string "tag" of the parsed value
NodeStrings ==
  { [valid |-> FALSE, type |-> "", tag |-> None],
    [valid |-> TRUE, type |-> "hysteria2", tag |-> None],
    [valid |-> TRUE, type |-> "shadowsocks", tag |-> Some("m")] }

\* The entries a subscription's `proxies` list is drawn from
FeedProxies(u) ==
  IF u = "u1"
    THEN { [type |-> "hysteria2", name |-> Some("a")],
           [type |-> "vmess", name |-> Some("c")],
           [type |-> "ss", name |-> None] }
    ELSE { [type |-> "anytls", name |-> Some("m")],
           [type |-> "hysteria2", name |-> Some("a")],
           [type |-> "ss", name |-> None] }

SeqsUpTo(S, n) == UNION { [1..k -> S] : k \in 0..n }

Urls == {"u1", "u2"}
FetchErr == [ok |-> FALSE, proxies |-> << >>]
FetchOk(ps) == [ok |-> TRUE, proxies |-> ps]
\* What a subscription server can answer: an error, or a YAML document
FetchOutcomes(u) ==
  {FetchErr} \cup { FetchOk(ps) : ps \in SeqsUpTo(FeedProxies(u), MaxFeedLen) }

\* The deployment the supervisor is checked with: one subscription, one node
OneFeed == FetchOk(<< [type |-> "hysteria2", name |-> Some("a")] >>)
ServiceConfig == [subs |-> << "u1" >>, nodes |-> << >>]

NoFile == [members |-> << >>, outbounds |-> << >>, state |-> "absent"]
Partial == [members |-> << >>, outbounds |-> << >>, state |-> "partial"]
\* a config.json left by an earlier run
OldConfig == [members |-> << "old" >>, outbounds |-> << >>, state |-> "complete"]

VARIABLES
  lock,       \* SING_PROCESS mutex: Free or the task holding it
  handle,     \* SING_PROCESS content: NoProc (None) or the pid of the stored child
  pstate,     \* OS view of every engine process: "unborn", "alive" or "exited"
  nspawn,     \* number of engine processes spawned so far
  sig,        \* signal last issued to a live process: "none", "term" or "kill"
  pc,         \* position of every task
  op,         \* the handler a task is running
  child,      \* start_sing_internal's local `child`
  attempt,    \* start_sing_internal's loop variable `attempt` (0: loop not entered)
  polls,      \* stop_sing_internal's count of completed poll iterations
  teardown,   \* TRUE while stop_sing_internal runs as the probe-failure teardown
  res,        \* value returned by the task's last start_sing_internal
  resp,       \* HTTP response of the handler
  restoreQ,   \* detached restore_last_proxy tasks spawned and not yet run
  cfg,        \* AppState.config
  subStatus,  \* SUB_STATUS: the entries present, as a function on their urls
  engineCfg,  \* /tmp/miao-sing-box/config.json
  net,        \* what each subscription server currently answers
  snap,       \* the &Config a task's gen_config works on
  gi,         \* gen_config: index of the next subscription to fetch
  fnames,     \* gen_config: final_node_names
  fouts,      \* gen_config: final_outbounds
  gres,       \* value returned by the task's last gen_config
  cfgLock,    \* AppState.config mutex: Free or the task holding it
  disk,       \* config.yaml
  arg,        \* the request body of the handler a task is running
  nmut,       \* number of config mutations accepted so far
  saveFailed, \* TRUE once a save_config call has returned Err
  exe,        \* the file at the path of the running executable
  bak,        \* the file at the backup path, <exe>.bak
  tmp,        \* the file at /tmp/miao-new
  unlinked,   \* TRUE once the file this process was started from has been removed
  execTask,   \* TRUE while a detached re-exec task of upgrade is spawned and not run
  up,         \* upgrade: the locals of the handler
  lastProxy,  \* the file .last_proxy
  rst,        \* restore_last_proxy: the locals of the detached task that runs
  puts,       \* the selection updates (PUT) sent to the control API of the engine
  subLock     \* SUB_STATUS mutex: Free or the task holding it

supVars == << lock, handle, pstate, nspawn, sig >>
startLocals == << child, attempt, polls >>
synVars == << cfg, subStatus, engineCfg, net >>
genLocals == << snap, gi, fnames, fouts, gres >>
cfgVars == << cfgLock, disk, arg, nmut, saveFailed >>
upgVars == << exe, bak, tmp, unlinked, execTask, up >>
selVars == << lastProxy, rst, puts >>
vars == << lock, handle, pstate, nspawn, sig, pc, op, child, attempt, polls,
           teardown, res, resp, restoreQ, cfg, subStatus, engineCfg, net,
           snap, gi, fnames, fouts, gres, cfgLock, disk, arg, nmut, saveFailed,
           exe, bak, tmp, unlinked, execTask, up, lastProxy, rst, puts, subLock >>

\* ------------------------------------------------------------ result values
NoRes == [kind |-> "none", code |-> 0]
Res(k) == [kind |-> k, code |-> 0]
ImmediateExit(c) == [kind |-> "immediate_exit", code |-> c]

NoResp == [code |-> 0, success |-> FALSE, data |-> None]
ApiSuccess(d) == [code |-> 200, success |-> TRUE, data |-> d]
ApiError(c) == [code |-> c, success |-> FALSE, data |-> None]

NoConfig == [subs |-> << >>, nodes |-> << >>]
NoArg == [name |-> "", node_type |-> None]
\* .last_proxy: no file, or a file that does not parse as a LastProxy
NoLastProxy == [state |-> "absent", group |-> "", name |-> ""]
Garbage == [state |-> "garbage", group |-> "", name |-> ""]
NoRestore == [pc |-> "none", proxy |-> None, all |-> None]
NoUp == [tag |-> None, cur |-> "none", src |-> "none", msg |-> ""]

\* ExitStatus values of an exited child: code Some(c), or None when killed by a signal
ExitStatuses == {Some(c) : c \in 0..MaxExitCode} \cup {None}
\* exit_status.code().unwrap_or(-1)
ExitCode(st) == IF st = None THEN -1 ELSE st[1]

\* proc.child.try_wait() is None: the stored child has not exited
IsRunning(h, ps) == h # NoProc /\ ps[h] = "alive"

StartRefused_Never(h, ps) == FALSE
\* start_sing_internal's check (1124-1128): a child is stored and has not exited
StartRefused(h, ps) == IsRunning(h, ps)

ExitedAtSettle_Never(c, ps) == FALSE
\* child.try_wait() after the settle sleep is Some(exit_status) (1151)
ExitedAtSettle(c, ps) == ps[c] # "alive"

PollFoundExit_Always(h, ps) == TRUE
\* the polling loop of stop_sing_internal ended on an exited child (1212, 1217)
PollFoundExit(h, ps) == ~IsRunning(h, ps)

ExitConfirmed_NoWait(h, ps) == TRUE
\* proc.child.wait().await has returned: the child has exited (1219)
ExitConfirmed(h, ps) == ~IsRunning(h, ps)

Reaped_Never(h, ps) == h
\* the handle get_status leaves: cleared when the stored child has exited (241-245)
Reaped(h, ps) == IF h # NoProc /\ ~IsRunning(h, ps) THEN NoProc ELSE h

ForceSignal_Term == "term"
\* child.start_kill(), the signal stop_sing_internal sends last (1218)
ForceSignal == "kill"
GracefulSignal_Kill == "kill"
\* Signal::SIGTERM, the signal stop_sing_internal sends first (1208)
GracefulSignal == "term"

\* StatusData of get_status
StatusData(h, ps) ==
  IF IsRunning(h, ps)
    THEN [running |-> TRUE, pid |-> Some(h), uptime_secs |-> Some("elapsed")]
    ELSE [running |-> FALSE, pid |-> None, uptime_secs |-> None]

\* ------------------------------------------------------ gen_config helpers
\* iter().filter_map(f).collect() is written as the subsequence f keeps
\* (SelectSeq), mapped to f's values
IsJson(n) == n.valid
ParsedNode(n) == [type |-> n.type, tag |-> n.tag]
HasTag(o) == o.tag # None
TagOf(o) == o.tag[1]
\* my_outbounds: the config nodes that parse as JSON
MyOutbounds(c) ==
  LET kept == SelectSeq(c.nodes, IsJson) IN [i \in 1..Len(kept) |-> ParsedNode(kept[i])]
\* my_names: the string tags of my_outbounds
MyNames(c) ==
  LET kept == SelectSeq(MyOutbounds(c), HasTag) IN [i \in 1..Len(kept) |-> TagOf(kept[i])]

Supported(p) == p.type \in {"hysteria2", "anytls", "ss"}
\* name = node.get("name").and_then(as_str).unwrap_or("")
ProxyName(p) == IF p.name = None THEN "" ELSE p.name[1]
Outbound_TagIsType(p) == [type |-> p.type, tag |-> Some(p.type)]
\* the outbound object fetch_sub builds for a supported proxy
Outbound(p) ==
  [type |-> IF p.type = "ss" THEN "shadowsocks" ELSE p.type, tag |-> Some(ProxyName(p))]
\* fetch_sub: Ok((node_names, outbounds)) or Err
FetchNames(o) ==
  LET kept == SelectSeq(o.proxies, Supported) IN [i \in 1..Len(kept) |-> ProxyName(kept[i])]
FetchOutbounds(o) ==
  LET kept == SelectSeq(o.proxies, Supported) IN [i \in 1..Len(kept) |-> Outbound(kept[i])]

SubStatusOf_Pending(url, o) ==
  [url |-> url, success |-> TRUE, node_count |-> 0, error |-> None]
\* the SubStatus gen_config records for one fetch
SubStatusOf(url, o) ==
  IF o.ok
    THEN [url |-> url, success |-> Len(FetchNames(o)) > 0,
          node_count |-> Len(FetchNames(o)),
          error |-> IF Len(FetchNames(o)) = 0 THEN Some("No nodes found") ELSE None]
    ELSE [url |-> url, success |-> FALSE, node_count |-> 0, error |-> Some("fetch error")]

\* status_map.retain(|url, _| config.subs.contains(url))
Retain(m, c) == [u \in {x \in DOMAIN m : \E i \in 1..Len(c.subs) : c.subs[i] = x} |-> m[u]]
\* status_map.insert(url, status)
Insert(m, u, st) == [x \in DOMAIN m \cup {u} |-> IF x = u THEN st ELSE m[x]]

\* get_config_template()["outbounds"]
TemplateOutbounds ==
  << [type |-> "selector", tag |-> Some("proxy")], [type |-> "direct", tag |-> Some("direct")] >>
SingBoxConfig_FetchedFirst(myNames, myOutbounds, names, outbounds) ==
  [members |-> names \o myNames,
   outbounds |-> TemplateOutbounds \o outbounds \o myOutbounds,
   state |-> "complete"]
\* the document gen_config writes (1284-1297)
SingBoxConfig(myNames, myOutbounds, names, outbounds) ==
  [members |-> myNames \o names,
   outbounds |-> TemplateOutbounds \o myOutbounds \o outbounds,
   state |-> "complete"]

TotalNodes_FetchedOnly(c, outs) == Len(outs)
\* total_nodes = my_outbounds.len() + final_outbounds.len() (1277)
TotalNodes(c, outs) == Len(MyOutbounds(c)) + Len(outs)

\* ---------------------------------------------------------------- initial
TaskInit ==
  /\ lock = Free
  /\ handle = NoProc
  /\ pstate = [p \in Pids |-> "unborn"]
  /\ nspawn = 0
  /\ sig = [p \in Pids |-> "none"]
  /\ pc = [t \in Procs |-> IF t = Main THEN "gc_begin" ELSE "idle"]
  /\ op = [t \in Procs |-> IF t = Main THEN "main" ELSE "none"]
  /\ child = [t \in Procs |-> NoProc]
  /\ attempt = [t \in Procs |-> 0]
  /\ polls = [t \in Procs |-> 0]
  /\ teardown = [t \in Procs |-> FALSE]
  /\ res = [t \in Procs |-> NoRes]
  /\ resp = [t \in Procs |-> NoResp]
  /\ restoreQ = 0
  /\ subStatus = << >>
  /\ snap = [t \in Procs |-> IF t = Main THEN cfg ELSE NoConfig]
  /\ gi = [t \in Procs |-> 0]
  /\ fnames = [t \in Procs |-> << >>]
  /\ fouts = [t \in Procs |-> << >>]
  /\ gres = [t \in Procs |-> "none"]
  /\ cfgLock = Free
  /\ disk = [content |-> cfg, state |-> "complete"]
  /\ arg = [t \in Procs |-> NoArg]
  /\ nmut = 0
  /\ saveFailed = FALSE
  /\ exe = "orig"
  /\ bak = "absent"
  /\ tmp = "absent"
  /\ unlinked = FALSE
  /\ execTask = FALSE
  /\ up = [t \in Procs |-> NoUp]
  /\ rst = NoRestore
  /\ puts = << >>
  /\ subLock = Free

\* main() after reading config.yaml (1492), in the deployment ServiceConfig
Init ==
  /\ cfg = ServiceConfig
  /\ net \in [Urls -> {FetchErr, OneFeed}]
  /\ net["u2"] = FetchErr
  /\ engineCfg = NoFile
  /\ lastProxy = NoLastProxy
  /\ TaskInit

\* main() after reading config.yaml (1492), for every config and every answer
InitGen ==
  /\ cfg \in [subs : {<< >>, << "u1" >>, << "u1", "u2" >>},
              nodes : SeqsUpTo(NodeStrings, MaxNodes)]
  /\ net \in [Urls -> UNION {FetchOutcomes(u) : u \in Urls}]
  /\ \A u \in Urls : net[u] \in FetchOutcomes(u)
  /\ \A u \in Urls : (\A i \in 1..Len(cfg.subs) : cfg.subs[i] # u) => net[u] = FetchErr
  /\ engineCfg \in {NoFile, OldConfig}
  /\ lastProxy = NoLastProxy
  /\ TaskInit

\* the Ok arm of the caller's match on start_sing_internal spawns the restore task
\* (285-288, 1006-1008, 1524-1527)
SpawnsRestore_Always(r) == TRUE
SpawnsRestore(r) == r.kind = "ok"

\* ------------------------------------------------- returns to the callers
\* start_sing_internal returns r to its caller o, which runs on to its own end:
\* start_service (283-295), regenerate_and_restart (1002-1010), main (1521-1530)
StartReturns(t, o, r) ==
  /\ res' = [res EXCEPT ![t] = r]
  /\ restoreQ' = IF SpawnsRestore(r) THEN restoreQ + 1 ELSE restoreQ
  /\ teardown' = [teardown EXCEPT ![t] = FALSE]
  /\ IF o = "main"
       THEN /\ pc' = [pc EXCEPT ![t] = "serving"]
            /\ UNCHANGED resp
       ELSE /\ pc' = [pc EXCEPT ![t] = "respond"]
            /\ resp' = [resp EXCEPT ![t] =
                 IF r.kind = "ok" THEN ApiSuccess(None) ELSE ApiError(500)]

\* stop_sing_internal returns to its caller: the teardown of start_sing_internal
\* (1195-1196), stop_service (300-301) or regenerate_and_restart (999-1002)
StopReturns(t, o) ==
  IF teardown[t]
    THEN StartReturns(t, o, Res("connectivity_failed"))
    ELSE /\ UNCHANGED << res, restoreQ, teardown >>
         /\ IF o = "stop_service"
              THEN /\ pc' = [pc EXCEPT ![t] = "respond"]
                   /\ resp' = [resp EXCEPT ![t] = ApiSuccess(None)]
              ELSE /\ pc' = [pc EXCEPT ![t] = IF o = "upgrade" THEN "up_backup" ELSE "si_lock"]
                   /\ UNCHANGED resp

\* the `?` on gen_config in regenerate_and_restart (995)
RestartProceeds_Always(r) == TRUE
RestartProceeds(r) == r = "ok"

LeavesRetryLoop_Always(r) == TRUE
\* the match on gen_config in the retry loop of main: Ok(_) => break (1502-1503)
LeavesRetryLoop(r) == r = "ok"

\* gen_config returns r to its caller: the retry loop of main (1501-1512) or
\* regenerate_and_restart (995-999)
GenReturns(t, r) ==
  /\ gres' = [gres EXCEPT ![t] = r]
  /\ gi' = [gi EXCEPT ![t] = 0]
  /\ fnames' = [fnames EXCEPT ![t] = << >>]
  /\ fouts' = [fouts EXCEPT ![t] = << >>]
  /\ IF op[t] = "main"
       THEN /\ pc' = [pc EXCEPT ![t] = IF LeavesRetryLoop(r) THEN "si_lock" ELSE "gc_begin"]
            /\ UNCHANGED resp
       ELSE IF RestartProceeds(r)
         THEN /\ pc' = [pc EXCEPT ![t] = "st_lock"]
              /\ UNCHANGED resp
         ELSE /\ pc' = [pc EXCEPT ![t] = "respond"]
              /\ resp' = [resp EXCEPT ![t] = ApiError(500)]

\* ------------------------------------------------------------ environment
\* An engine process exits, on its own or after a delivered signal
ProcessExit(p) ==
  /\ pstate[p] = "alive"
  /\ pstate' = [pstate EXCEPT ![p] = "exited"]
  /\ sig' = [sig EXCEPT ![p] = "none"]
  /\ UNCHANGED << lock, handle, nspawn, pc, op, startLocals, teardown, res, resp,
                  restoreQ, synVars, genLocals, cfgVars, upgVars, selVars, subLock >>

\* A subscription server starts answering differently
NetChange(u) ==
  /\ \E i \in 1..Len(cfg.subs) : cfg.subs[i] = u
  /\ \E o \in {FetchErr, OneFeed} : o # net[u] /\ net' = [net EXCEPT ![u] = o]
  /\ UNCHANGED << supVars, pc, op, startLocals, teardown, res, resp, restoreQ,
                  cfg, subStatus, engineCfg, genLocals, cfgVars, upgVars, selVars, subLock >>

\* The response is sent and the handler's locals are dropped
Respond(t) ==
  /\ pc[t] = "respond"
  /\ pc' = [pc EXCEPT ![t] = "idle"]
  /\ op' = [op EXCEPT ![t] = "none"]
  /\ child' = [child EXCEPT ![t] = NoProc]
  /\ attempt' = [attempt EXCEPT ![t] = 0]
  /\ polls' = [polls EXCEPT ![t] = 0]
  /\ res' = [res EXCEPT ![t] = NoRes]
  /\ resp' = [resp EXCEPT ![t] = NoResp]
  /\ snap' = [snap EXCEPT ![t] = NoConfig]
  /\ gres' = [gres EXCEPT ![t] = "none"]
  /\ arg' = [arg EXCEPT ![t] = NoArg]
  /\ up' = [up EXCEPT ![t] = NoUp]
  /\ UNCHANGED << supVars, teardown, restoreQ, synVars, gi, fnames, fouts, cfgLock, disk, nmut,
                  saveFailed, exe, bak, tmp, unlinked, execTask, selVars, subLock >>

\* ------------------------------------------------- start_sing_internal
\* lock, already-running check and spawn (1123-1147), up to the settle sleep
StartBegin(t, o) ==
  /\ lock = Free
  /\ IF StartRefused(handle, pstate)
       THEN /\ StartReturns(t, o, Res("already_running"))
            /\ UNCHANGED << lock, pstate, nspawn, child >>
       ELSE \/ /\ StartReturns(t, o, Res("spawn_failed"))
               /\ UNCHANGED << lock, pstate, nspawn, child >>
            \/ /\ nspawn < MaxSpawn
               /\ nspawn' = nspawn + 1
               /\ pstate' = [pstate EXCEPT ![nspawn + 1] = "alive"]
               /\ child' = [child EXCEPT ![t] = nspawn + 1]
               /\ lock' = t
               /\ pc' = [pc EXCEPT ![t] = "si_settle"]
               /\ UNCHANGED << res, resp, restoreQ, teardown >>
  /\ UNCHANGED << handle, sig, attempt, polls, synVars, genLocals, cfgVars, upgVars, selVars, subLock >>

start_sing_internal_spawn(t) ==
  /\ pc[t] = "si_lock"
  /\ StartBegin(t, op[t])
  /\ UNCHANGED op

\* after the 500 ms settle sleep (1150-1161): immediate-exit check, store, drop(lock)
start_sing_internal_settle(t) ==
  /\ pc[t] = "si_settle"
  /\ lock' = Free
  /\ IF ExitedAtSettle(child[t], pstate)
       THEN /\ \E st \in ExitStatuses : StartReturns(t, op[t], ImmediateExit(ExitCode(st)))
            /\ UNCHANGED << handle, attempt >>
       ELSE /\ handle' = child[t]
            /\ attempt' = [attempt EXCEPT ![t] = 1]
            /\ pc' = [pc EXCEPT ![t] = "si_probe"]
            /\ UNCHANGED << res, resp, restoreQ, teardown >>
  /\ UNCHANGED << pstate, nspawn, sig, op, child, polls, synVars, genLocals, cfgVars, upgVars, selVars, subLock >>

\* after the 5 s sleep: client build and one iteration of the probe loop (1164-1197)
start_sing_internal_probe(t) ==
  /\ pc[t] = "si_probe"
  /\ \/ /\ attempt[t] = 1
        /\ StartReturns(t, op[t], Res("client_build_failed"))
        /\ UNCHANGED attempt
     \/ /\ StartReturns(t, op[t], Res("ok"))
        /\ UNCHANGED attempt
     \/ /\ IF attempt[t] < PROBE_ATTEMPTS
             THEN /\ attempt' = [attempt EXCEPT ![t] = attempt[t] + 1]
                  /\ UNCHANGED << pc, teardown >>
             ELSE /\ teardown' = [teardown EXCEPT ![t] = TRUE]
                  /\ pc' = [pc EXCEPT ![t] = "st_lock"]
                  /\ UNCHANGED attempt
        /\ UNCHANGED << res, resp, restoreQ >>
  /\ UNCHANGED << supVars, op, child, polls, synVars, genLocals, cfgVars, upgVars, selVars, subLock >>

\* -------------------------------------------------- stop_sing_internal
\* lock, check, SIGTERM (1203-1208), up to the first poll sleep
StopBegin(t, o) ==
  /\ lock = Free
  /\ IF IsRunning(handle, pstate)
       THEN /\ sig' = [sig EXCEPT ![handle] = GracefulSignal]
            /\ lock' = t
            /\ polls' = [polls EXCEPT ![t] = 0]
            /\ pc' = [pc EXCEPT ![t] = "st_poll"]
            /\ UNCHANGED << handle, res, resp, restoreQ, teardown >>
       ELSE /\ handle' = NoProc
            /\ StopReturns(t, o)
            /\ UNCHANGED << sig, lock, polls >>
  /\ UNCHANGED << pstate, nspawn, child, attempt, synVars, genLocals, cfgVars, upgVars, selVars, subLock >>

stop_sing_internal_term(t) ==
  /\ pc[t] = "st_lock"
  /\ StopBegin(t, op[t])
  /\ UNCHANGED op

\* the polling loop (1210-1215) and the check after it (1217-1219), as one step:
\* between its iterations the task sleeps holding the lock and reads nothing but
\* the exit status of the child.  The loop ends at the first poll that finds the
\* child exited, or after STOP_POLLS polls that found it alive
stop_sing_internal_poll(t) ==
  /\ pc[t] = "st_poll"
  /\ IF PollFoundExit(handle, pstate)
       THEN /\ handle' = NoProc
            /\ lock' = Free
            /\ StopReturns(t, op[t])
            /\ UNCHANGED << sig, polls >>
       ELSE /\ polls' = [polls EXCEPT ![t] = STOP_POLLS]
            /\ sig' = [sig EXCEPT ![handle] = ForceSignal]
            /\ pc' = [pc EXCEPT ![t] = "st_wait"]
            /\ UNCHANGED << handle, lock, res, resp, restoreQ, teardown >>
  /\ UNCHANGED << pstate, nspawn, op, child, attempt, synVars, genLocals, cfgVars, upgVars, selVars, subLock >>

\* proc.child.wait().await returns once the process has exited (1219-1224)
stop_sing_internal_wait(t) ==
  /\ pc[t] = "st_wait"
  /\ ExitConfirmed(handle, pstate)
  /\ handle' = NoProc
  /\ lock' = Free
  /\ polls' = [polls EXCEPT ![t] = 0]
  /\ StopReturns(t, op[t])
  /\ UNCHANGED << pstate, nspawn, sig, op, child, attempt, synVars, genLocals, cfgVars, upgVars, selVars, subLock >>

\* ------------------------------------------------------------ gen_config
\* manual nodes and the retain of SUB_STATUS (1230-1247)
gen_config_begin(t) ==
  /\ pc[t] = "gc_begin"
  /\ subLock = Free
  /\ subStatus' = Retain(subStatus, snap[t])
  /\ gi' = [gi EXCEPT ![t] = 1]
  /\ fnames' = [fnames EXCEPT ![t] = << >>]
  /\ fouts' = [fouts EXCEPT ![t] = << >>]
  /\ pc' = [pc EXCEPT ![t] = IF snap[t].subs = << >> THEN "gc_write" ELSE "gc_fetch"]
  /\ UNCHANGED << supVars, op, startLocals, teardown, res, resp, restoreQ, cfg,
                  engineCfg, net, snap, gres, cfgVars, upgVars, selVars, subLock >>

\* one iteration of the subscription loop (1249-1275)
gen_config_fetch(t) ==
  /\ pc[t] = "gc_fetch"
  /\ subLock = Free
  /\ LET url == snap[t].subs[gi[t]]
         o == net[url]
     IN /\ fnames' = [fnames EXCEPT ![t] = IF o.ok THEN @ \o FetchNames(o) ELSE @]
        /\ fouts' = [fouts EXCEPT ![t] = IF o.ok THEN @ \o FetchOutbounds(o) ELSE @]
        /\ subStatus' = Insert(subStatus, url, SubStatusOf(url, o))
  /\ gi' = [gi EXCEPT ![t] = gi[t] + 1]
  /\ pc' = [pc EXCEPT ![t] = IF gi[t] = Len(snap[t].subs) THEN "gc_write" ELSE "gc_fetch"]
  /\ UNCHANGED << supVars, op, startLocals, teardown, res, resp, restoreQ, cfg,
                  engineCfg, net, snap, gres, cfgVars, upgVars, selVars, subLock >>

\* the node count check and the write of config.json (1277-1311)
gen_config_write(t) ==
  /\ pc[t] = "gc_write"
  /\ IF TotalNodes(snap[t], fouts[t]) = 0
       THEN /\ GenReturns(t, "no_nodes")
            /\ UNCHANGED engineCfg
       ELSE \/ /\ engineCfg' = SingBoxConfig(MyNames(snap[t]), MyOutbounds(snap[t]),
                                             fnames[t], fouts[t])
               /\ GenReturns(t, "ok")
            \/ /\ engineCfg' \in {engineCfg, Partial}
               /\ GenReturns(t, "io_error")
  /\ UNCHANGED << supVars, op, startLocals, teardown, res, restoreQ, cfg, subStatus,
                  net, snap, cfgVars, upgVars, selVars, subLock >>

\* --------------------------------------------------------- HTTP handlers
\* GET /api/status: the lock is taken and released without an await in between
get_status(t) ==
  /\ pc[Main] = "serving"
  /\ pc[t] = "idle"
  /\ lock = Free
  /\ op' = [op EXCEPT ![t] = "get_status"]
  /\ handle' = Reaped(handle, pstate)
  /\ resp' = [resp EXCEPT ![t] = ApiSuccess(Some(StatusData(handle, pstate)))]
  /\ pc' = [pc EXCEPT ![t] = "respond"]
  /\ UNCHANGED << lock, pstate, nspawn, sig, startLocals, teardown, res, restoreQ,
                  synVars, genLocals, cfgVars, upgVars, selVars, subLock >>

\* POST /api/service/start: the check under the lock, then drop(lock) (270-281)
start_service(t) ==
  /\ pc[Main] = "serving"
  /\ pc[t] = "idle"
  /\ lock = Free
  /\ op' = [op EXCEPT ![t] = "start_service"]
  /\ IF IsRunning(handle, pstate)
       THEN /\ pc' = [pc EXCEPT ![t] = "respond"]
            /\ resp' = [resp EXCEPT ![t] = ApiError(400)]
       ELSE /\ pc' = [pc EXCEPT ![t] = "si_lock"]
            /\ UNCHANGED resp
  /\ UNCHANGED << supVars, startLocals, teardown, res, restoreQ, synVars, genLocals, cfgVars, upgVars, selVars, subLock >>

\* POST /api/service/stop (299-302)
stop_service(t) ==
  /\ pc[Main] = "serving"
  /\ pc[t] = "idle"
  /\ op' = [op EXCEPT ![t] = "stop_service"]
  /\ StopBegin(t, "stop_service")

\* POST /api/subs/refresh: clone of the config under its lock (707-711)
refresh_subs(t) ==
  /\ pc[Main] = "serving"
  /\ pc[t] = "idle"
  /\ cfgLock = Free
  /\ op' = [op EXCEPT ![t] = "refresh_subs"]
  /\ snap' = [snap EXCEPT ![t] = cfg]
  /\ pc' = [pc EXCEPT ![t] = "gc_begin"]
  /\ UNCHANGED << supVars, startLocals, teardown, res, resp, restoreQ, synVars,
                  gi, fnames, fouts, gres, cfgVars, upgVars, selVars, subLock >>

\* ------------------------------------------------- config mutations
\* the request bodies: SubRequest.url, NodeRequest.tag and node_type,
\* DeleteNodeRequest.tag
SubRequests == { [name |-> u, node_type |-> None] : u \in Urls }
NodeTags == {"m", "n"}
\* NodeRequest (159-169): name is its tag; the password and the cipher are fixed
NodeRequestValues ==
  [name : NodeTags, node_type : {None, Some("anytls"), Some("ss")},
   server : {"a.example"}, server_port : {443, 65535},
   password : {"pw"}, sni : {None, Some("sni.example")}, cipher : {None}]
\* the requests of the service under concurrency: one node per tag
NodeRequests ==
  { r \in NodeRequestValues :
      r.node_type = None /\ r.server = "a.example" /\ r.server_port = 443 /\ r.sni = None }
DeleteNodeRequests == { [name |-> g, node_type |-> None] : g \in NodeTags }

HasSub_Never(c, u) == FALSE
\* config.subs.contains(&req.url)
HasSub(c, u) == \E i \in 1..Len(c.subs) : c.subs[i] = u
\* the string of config.nodes parses and its "tag" is the string g
NodeHasTag(n, g) == n.valid /\ n.tag = Some(g)
HasNode(c, g) == \E i \in 1..Len(c.nodes) : NodeHasTag(c.nodes[i], g)
\* the JSON string add_node builds for a request (770-821)
\* Tls as serialized: server_name is skipped when it is None (67-73)
TlsJson(sni) ==
  IF sni = None
    THEN [enabled |-> TRUE, insecure |-> TRUE]
    ELSE [enabled |-> TRUE, server_name |-> sni[1], insecure |-> TRUE]
\* a JSON object is a record of its keys; valid says that the string parses
NodeJson(r) ==
  IF r.node_type = Some("anytls")
    THEN [valid |-> TRUE, type |-> "anytls", tag |-> Some(r.name), server |-> r.server,
          server_port |-> r.server_port, password |-> r.password, tls |-> TlsJson(r.sni)]
    ELSE IF r.node_type = Some("ss")
      THEN [valid |-> TRUE, type |-> "shadowsocks", tag |-> Some(r.name),
            server |-> r.server, server_port |-> r.server_port,
            method |-> IF r.cipher = None THEN "2022-blake3-aes-128-gcm" ELSE r.cipher[1],
            password |-> r.password]
      ELSE [valid |-> TRUE, type |-> "hysteria2", tag |-> Some(r.name), server |-> r.server,
            server_port |-> r.server_port, password |-> r.password, up_mbps |-> 40,
            down_mbps |-> 350, tls |-> TlsJson(r.sni)]
\* config.subs.push(req.url)
PushSub(c, u) == [c EXCEPT !.subs = Append(@, u)]
\* config.subs.retain(|s| s != &req.url)
RetainSubs(c, u) == [c EXCEPT !.subs = SelectSeq(@, LAMBDA x : x # u)]
PushNode_Replace(c, r) == [c EXCEPT !.nodes = << NodeJson(r) >>]
\* config.nodes.push(node_json)
PushNode(c, r) == [c EXCEPT !.nodes = Append(@, NodeJson(r))]
\* config.nodes.retain(|node_str| its tag is not req.tag)
RetainNodes(c, g) == [c EXCEPT !.nodes = SelectSeq(@, LAMBDA n : ~NodeHasTag(n, g))]

\* a write of config.yaml that did not complete
PartialYaml == [content |-> NoConfig, state |-> "partial"]

\* the common shape of the four handlers up to the await of save_config: the
\* config lock is taken, the request is checked against the config, the config
\* is mutated in memory
MutateBegin(t, o, r, rejected, code, newCfg) ==
  /\ pc[Main] = "serving"
  /\ pc[t] = "idle"
  /\ cfgLock = Free
  /\ op' = [op EXCEPT ![t] = o]
  /\ arg' = [arg EXCEPT ![t] = r]
  /\ IF rejected
       THEN /\ pc' = [pc EXCEPT ![t] = "respond"]
            /\ resp' = [resp EXCEPT ![t] = ApiError(code)]
            /\ UNCHANGED << cfg, cfgLock, nmut >>
       ELSE /\ nmut < MaxMutations
            /\ nmut' = nmut + 1
            /\ cfg' = newCfg
            /\ cfgLock' = t
            /\ pc' = [pc EXCEPT ![t] = "save"]
            /\ UNCHANGED resp
  /\ UNCHANGED << supVars, startLocals, teardown, res, restoreQ, subStatus, engineCfg,
                  net, genLocals, disk, saveFailed, upgVars, selVars, subLock >>

GetSubsOrder_StatusFirst == << "status", "config" >>
\* the locks get_subs takes, in the order it takes them (617-618)
GetSubsOrder == << "config", "status" >>

\* task t takes the mutex named m: AppState.config or SUB_STATUS
TakeMutex(t, m) ==
  IF m = "config"
    THEN cfgLock = Free /\ cfgLock' = t /\ UNCHANGED subLock
    ELSE subLock = Free /\ subLock' = t /\ UNCHANGED cfgLock

\* the entry get_subs reports for a url that has no status yet (624-629)
PendingStatus(url) == [url |-> url, success |-> TRUE, node_count |-> 0, error |-> None]
\* subs_with_status (620-631)
SubsWithStatus(c, m) ==
  [i \in 1..Len(c.subs) |->
     IF c.subs[i] \in DOMAIN m THEN m[c.subs[i]] ELSE PendingStatus(c.subs[i])]

\* GET /api/subs: the first lock (617)
get_subs(t) ==
  /\ pc[Main] = "serving"
  /\ pc[t] = "idle"
  /\ TakeMutex(t, GetSubsOrder[1])
  /\ op' = [op EXCEPT ![t] = "get_subs"]
  /\ pc' = [pc EXCEPT ![t] = "gs_second"]
  /\ UNCHANGED << supVars, startLocals, teardown, res, resp, restoreQ, synVars, genLocals,
                  disk, arg, nmut, saveFailed, upgVars, selVars >>

\* GET /api/subs: the second lock (618)
get_subs_second(t) ==
  /\ pc[t] = "gs_second"
  /\ TakeMutex(t, GetSubsOrder[2])
  /\ pc' = [pc EXCEPT ![t] = "gs_read"]
  /\ UNCHANGED << supVars, op, startLocals, teardown, res, resp, restoreQ, synVars, genLocals,
                  disk, arg, nmut, saveFailed, upgVars, selVars >>

\* GET /api/subs: the list is built under both locks, which the return drops
\* (620-633)
get_subs_read(t) ==
  /\ pc[t] = "gs_read"
  /\ resp' = [resp EXCEPT ![t] = ApiSuccess(Some(SubsWithStatus(cfg, subStatus)))]
  /\ cfgLock' = Free
  /\ subLock' = Free
  /\ pc' = [pc EXCEPT ![t] = "respond"]
  /\ UNCHANGED << supVars, op, startLocals, teardown, res, restoreQ, synVars, genLocals,
                  disk, arg, nmut, saveFailed, upgVars, selVars >>

\* POST /api/subs (641-652)
add_sub(t) ==
  \E r \in SubRequests :
    MutateBegin(t, "add_sub", r, HasSub(cfg, r.name), 400, PushSub(cfg, r.name))

\* DELETE /api/subs (674-686)
delete_sub(t) ==
  \E r \in SubRequests :
    MutateBegin(t, "delete_sub", r,
                Len(RetainSubs(cfg, r.name).subs) = Len(cfg.subs), 404,
                RetainSubs(cfg, r.name))

\* POST /api/nodes (753-823)
add_node(t) ==
  \E r \in NodeRequests :
    MutateBegin(t, "add_node", r, HasNode(cfg, r.name), 400, PushNode(cfg, r))

\* POST /api/nodes (753-823), for every value of the request
add_node_any(t) ==
  \E r \in NodeRequestValues :
    MutateBegin(t, "add_node", r, HasNode(cfg, r.name), 400, PushNode(cfg, r))

\* the NodeInfo get_nodes builds from the parsed string of a node (731-741)
NodeInfo(v) ==
  [tag |-> IF "tag" \in DOMAIN v /\ v.tag # None THEN v.tag[1] ELSE "",
   server |-> IF "server" \in DOMAIN v THEN v.server ELSE "",
   server_port |-> IF "server_port" \in DOMAIN v THEN v.server_port ELSE 0,
   sni |-> IF "tls" \in DOMAIN v /\ "server_name" \in DOMAIN v.tls
             THEN Some(v.tls.server_name) ELSE None]

\* the list get_nodes answers for a config (728-743)
NodeInfos(c) ==
  LET kept == SelectSeq(c.nodes, IsJson) IN [i \in 1..Len(kept) |-> NodeInfo(kept[i])]

\* GET /api/nodes (725-746)
get_nodes(t) ==
  /\ pc[Main] = "serving"
  /\ pc[t] = "idle"
  /\ cfgLock = Free
  /\ op' = [op EXCEPT ![t] = "get_nodes"]
  /\ pc' = [pc EXCEPT ![t] = "respond"]
  /\ resp' = [resp EXCEPT ![t] = ApiSuccess(Some(NodeInfos(cfg)))]
  /\ UNCHANGED << supVars, startLocals, teardown, res, restoreQ, synVars, genLocals, cfgVars,
                  upgVars, selVars, subLock >>

\* DELETE /api/nodes (845-863)
delete_node(t) ==
  \E r \in DeleteNodeRequests :
    MutateBegin(t, "delete_node", r,
                Len(RetainNodes(cfg, r.name).nodes) = Len(cfg.nodes), 404,
                RetainNodes(cfg, r.name))

\* save_config returns Ok or Err (986-990)
SaveOutcomes == {"ok", "err"}

AfterSave_Ignored(out) == "gc_begin"
\* where the handler goes on the result of save_config: the error return, or
\* the clone and regenerate_and_restart (654-663)
AfterSave(out) == IF out = "ok" THEN "gc_begin" ELSE "respond"

\* save_config returns to the handler, still under the config lock: on Err
\* the handler answers 500; on Ok it clones the config, leaves the lock scope
\* and calls regenerate_and_restart (654-663, 688-697, 825-834, 865-874)
save_config(t) ==
  /\ pc[t] = "save"
  /\ cfgLock' = Free
  /\ \E out \in SaveOutcomes :
       /\ pc' = [pc EXCEPT ![t] = AfterSave(out)]
       /\ IF out = "ok"
            THEN /\ disk' = [content |-> cfg, state |-> "complete"]
                 /\ snap' = [snap EXCEPT ![t] = cfg]
                 /\ UNCHANGED << resp, saveFailed >>
            ELSE /\ disk' \in {disk, PartialYaml}
                 /\ saveFailed' = TRUE
                 /\ resp' = [resp EXCEPT ![t] = ApiError(500)]
                 /\ UNCHANGED snap
  /\ UNCHANGED << supVars, op, startLocals, teardown, res, restoreQ, cfg, subStatus,
                  engineCfg, net, gi, fnames, fouts, gres, arg, nmut, upgVars, selVars, subLock >>

\* ------------------------------------------------------------- upgrade
\* The contents of an executable file: "orig" is the build this process was
\* started from, "new" a downloaded candidate the kernel can execute, "bad" a
\* downloaded candidate it cannot, "partial" what an unfinished write or copy
\* leaves, "absent" no file
Absent == "absent"
Complete == {"orig", "new", "bad"}
Runnable == {"orig", "new"}

\* CARGO_PKG_VERSION and the tag names of the release feed, split at the dots;
\* a part that is not a number is -1
VERSION == << 0, 1, 0 >>
Tags == {<< 0, 1 >>, << 1, 0 >>, << 1, -1, 0 >>, << 0, 0, 1 >>, << 0, 1, 0 >>, << 0, 2, 0 >>}
Releases == [tag : Tags, asset : BOOLEAN]

parse_version(v) ==
  IF Len(v) # 3 \/ \E i \in 1..Len(v) : v[i] < 0 THEN None ELSE Some(v)

\* l > c on the parsed triples
TupleGreater_OrEqual(l, c) ==
  \/ l[1] > c[1]
  \/ l[1] = c[1] /\ l[2] > c[2]
  \/ l[1] = c[1] /\ l[2] = c[2] /\ l[3] >= c[3]
TupleGreater(l, c) ==
  \/ l[1] > c[1]
  \/ l[1] = c[1] /\ l[2] > c[2]
  \/ l[1] = c[1] /\ l[2] = c[2] /\ l[3] > c[3]

is_newer_version(current, latest) ==
  /\ parse_version(current) # None
  /\ parse_version(latest) # None
  /\ TupleGreater(parse_version(latest)[1], parse_version(current)[1])

\* `verify.is_err()`: the candidate could not be spawned (522-527)
VerifyFails_Never(c) == FALSE
VerifyFails(c) == c \notin Runnable

\* std::env::current_exe(): once the file of the running image has been removed
\* the link of the process names "<path> (deleted)", which is no file
CurrentExe(u) == IF u THEN "deleted" ELSE "path"

\* what fs::copy leaves at its destination when it returns Ok: the source as it
\* was opened; of a source another writer had not finished, what could be read
CopyResults(src, now) ==
  IF src \in Complete THEN {src} ELSE {"partial"} \cup ({now} \cap Complete)

\* `let _ = fs::copy(&backup_path, &current_exe)`: what the best-effort restore
\* leaves at the path of the executable
RestoreResults(b, e) ==
  IF b = Absent THEN {e} ELSE {e, "partial"} \cup CopyResults(b, b)

\* return Json(r) with message m, the release having been read
ReleaseReturns(t, rel, r, m) ==
  /\ pc' = [pc EXCEPT ![t] = "respond"]
  /\ resp' = [resp EXCEPT ![t] = r]
  /\ up' = [up EXCEPT ![t].tag = Some(rel.tag), ![t].msg = m]

\* return Json(r) with message m
UpReturns(t, r, m) ==
  /\ pc' = [pc EXCEPT ![t] = "respond"]
  /\ resp' = [resp EXCEPT ![t] = r]
  /\ up' = [up EXCEPT ![t].msg = m]

\* 1-2: client, release info, version check, asset (463-499)
upgrade_release(t) ==
  /\ pc[Main] = "serving"
  /\ pc[t] = "idle"
  /\ op' = [op EXCEPT ![t] = "upgrade"]
  /\ \/ UpReturns(t, ApiError(200), "release")
     \/ \E rel \in Releases :
          IF ~is_newer_version(VERSION, rel.tag)
            THEN ReleaseReturns(t, rel, ApiSuccess(None), "up_to_date")
            ELSE IF ~rel.asset
              THEN ReleaseReturns(t, rel, ApiError(200), "no_asset")
              ELSE /\ pc' = [pc EXCEPT ![t] = "up_download"]
                   /\ up' = [up EXCEPT ![t].tag = Some(rel.tag)]
                   /\ UNCHANGED resp
  /\ UNCHANGED << supVars, startLocals, teardown, res, restoreQ, synVars, genLocals, cfgVars,
                  exe, bak, tmp, unlinked, execTask, selVars, subLock >>

\* 3-4: download, write of the temp file, chmod (503-519)
upgrade_download(t) ==
  /\ pc[t] = "up_download"
  /\ \/ UpReturns(t, ApiError(200), "download") /\ UNCHANGED tmp
     \/ \E data \in {"new", "bad"} :
          \/ tmp' \in {tmp, "partial"} /\ UpReturns(t, ApiError(200), "write_temp")
          \/ tmp' = data /\ UpReturns(t, ApiError(200), "temp_permissions")
          \/ /\ tmp' = data
             /\ pc' = [pc EXCEPT ![t] = "up_verify"]
             /\ UNCHANGED << resp, up >>
  /\ UNCHANGED << supVars, op, startLocals, teardown, res, restoreQ, synVars, genLocals, cfgVars,
                  exe, bak, unlinked, execTask, selVars, subLock >>

\* 7: `stop_sing_internal().await` follows current_exe() and precedes the backup (540)
AfterCurrentExe_NoStop == "up_backup"
AfterCurrentExe == "st_lock"

\* 5-6: the candidate is run with --help; current_exe() (522-536).  The unlink of
\* the temp file this process has written and chmod-ed removes it
upgrade_verify(t) ==
  /\ pc[t] = "up_verify"
  /\ IF VerifyFails(tmp)
       THEN /\ tmp' = Absent
            /\ UpReturns(t, ApiError(200), "verification")
       ELSE /\ UNCHANGED tmp
            /\ \/ UpReturns(t, ApiError(200), "current_exe")
               \/ /\ pc' = [pc EXCEPT ![t] = AfterCurrentExe]
                  /\ up' = [up EXCEPT ![t].cur = CurrentExe(unlinked)]
                  /\ UNCHANGED resp
  /\ UNCHANGED << supVars, op, startLocals, teardown, res, restoreQ, synVars, genLocals, cfgVars,
                  exe, bak, unlinked, execTask, selVars, subLock >>

\* 8: fs::copy(&current_exe, &backup_path) opens its source, then creates or
\* truncates its destination (543)
upgrade_backup(t) ==
  /\ pc[t] = "up_backup"
  /\ IF up[t].cur # "path" \/ exe = Absent
       THEN UpReturns(t, ApiError(200), "backup") /\ UNCHANGED bak
       ELSE \/ UpReturns(t, ApiError(200), "backup") /\ UNCHANGED bak
            \/ /\ bak' = "partial"
               /\ up' = [up EXCEPT ![t].src = exe]
               /\ pc' = [pc EXCEPT ![t] = "up_backup_end"]
               /\ UNCHANGED resp
  /\ UNCHANGED << supVars, op, startLocals, teardown, res, restoreQ, synVars, genLocals, cfgVars,
                  exe, tmp, unlinked, execTask, selVars, subLock >>

\* 8: the copy to the backup path ends (543-546)
upgrade_backup_end(t) ==
  /\ pc[t] = "up_backup_end"
  /\ \/ UpReturns(t, ApiError(200), "backup") /\ UNCHANGED bak
     \/ /\ bak' \in CopyResults(up[t].src, exe)
        /\ up' = [up EXCEPT ![t].src = "none"]
        /\ pc' = [pc EXCEPT ![t] = "up_remove"]
        /\ UNCHANGED resp
  /\ UNCHANGED << supVars, op, startLocals, teardown, res, restoreQ, synVars, genLocals, cfgVars,
                  exe, tmp, unlinked, execTask, selVars, subLock >>

\* 9: fs::remove_file(&current_exe) (549-551)
upgrade_remove(t) ==
  /\ pc[t] = "up_remove"
  /\ \/ UpReturns(t, ApiError(200), "remove") /\ UNCHANGED << exe, unlinked >>
     \/ /\ exe # Absent
        /\ exe' = Absent
        /\ unlinked' = TRUE
        /\ pc' = [pc EXCEPT ![t] = "up_copy"]
        /\ UNCHANGED << resp, up >>
  /\ UNCHANGED << supVars, op, startLocals, teardown, res, restoreQ, synVars, genLocals, cfgVars,
                  bak, tmp, execTask, selVars, subLock >>

\* 9: fs::copy(temp_path, &current_exe) opens the temp file and creates the
\* file at the path of the executable (552)
upgrade_copy(t) ==
  /\ pc[t] = "up_copy"
  /\ IF tmp = Absent
       THEN /\ pc' = [pc EXCEPT ![t] = "up_restore"]
            /\ up' = [up EXCEPT ![t].msg = "copy"]
            /\ UNCHANGED exe
       ELSE \/ /\ pc' = [pc EXCEPT ![t] = "up_restore"]
               /\ up' = [up EXCEPT ![t].msg = "copy"]
               /\ UNCHANGED exe
            \/ /\ exe' = "partial"
               /\ up' = [up EXCEPT ![t].src = tmp]
               /\ pc' = [pc EXCEPT ![t] = "up_copy_end"]
  /\ UNCHANGED << supVars, op, startLocals, teardown, res, resp, restoreQ, synVars, genLocals,
                  cfgVars, bak, tmp, unlinked, execTask, selVars, subLock >>

\* 9: the copy to the path of the executable ends (552-553)
upgrade_copy_end(t) ==
  /\ pc[t] = "up_copy_end"
  /\ \/ /\ pc' = [pc EXCEPT ![t] = "up_restore"]
        /\ up' = [up EXCEPT ![t].msg = "copy", ![t].src = "none"]
        /\ UNCHANGED exe
     \/ /\ exe' \in CopyResults(up[t].src, tmp)
        /\ up' = [up EXCEPT ![t].src = "none"]
        /\ pc' = [pc EXCEPT ![t] = "up_chmod"]
  /\ UNCHANGED << supVars, op, startLocals, teardown, res, resp, restoreQ, synVars, genLocals,
                  cfgVars, bak, tmp, unlinked, execTask, selVars, subLock >>

\* 9: set_permissions on the new executable; on success the temp file is removed,
\* the re-exec task is spawned and the handler returns (558-608)
upgrade_chmod(t) ==
  /\ pc[t] = "up_chmod"
  /\ \/ /\ exe' \in {exe, Absent}
        /\ pc' = [pc EXCEPT ![t] = "up_restore"]
        /\ up' = [up EXCEPT ![t].msg = "permissions"]
        /\ UNCHANGED << resp, tmp, execTask >>
     \/ /\ exe # Absent
        /\ tmp' = Absent
        /\ execTask' = TRUE
        /\ UpReturns(t, ApiSuccess(up[t].tag), "complete")
        /\ UNCHANGED exe
  /\ UNCHANGED << supVars, op, startLocals, teardown, res, restoreQ, synVars, genLocals, cfgVars,
                  bak, unlinked, selVars, subLock >>

\* the best-effort restore from the backup, then the error return (554-555, 562-563)
upgrade_restore(t) ==
  /\ pc[t] = "up_restore"
  /\ exe' \in RestoreResults(bak, exe)
  /\ UpReturns(t, ApiError(200), up[t].msg)
  /\ UNCHANGED << supVars, op, startLocals, teardown, res, restoreQ, synVars, genLocals, cfgVars,
                  bak, tmp, unlinked, execTask, selVars, subLock >>

\* the process image is replaced by the new executable ("replaced") or by the
\* restored one ("relaunched"), or the process exits: no task runs on
EndStates == {"replaced", "relaunched", "exited"}
Ended_MainRunsOn(how) == [p \in Procs |-> IF p = Main THEN "serving" ELSE how]
Ended(how) == [p \in Procs |-> how]

\* 10: the detached task: exec of the executable; when exec returns, remove,
\* restore from the backup, exec again, exit(1) (571-606)
upgrade_exec ==
  /\ execTask
  /\ pc[Main] = "serving"
  /\ execTask' = FALSE
  /\ \/ /\ exe \in Runnable
        /\ pc' = Ended("replaced")
        /\ UNCHANGED << exe, unlinked >>
     \/ /\ pc' = Ended("exited")
        /\ UNCHANGED << exe, unlinked >>
     \/ /\ exe # Absent
        /\ unlinked' = TRUE
        /\ \/ /\ exe' \in {Absent, "partial"}
              /\ pc' = Ended("exited")
           \/ /\ bak # Absent
              /\ exe' \in CopyResults(bak, bak)
              /\ \/ exe' \in Runnable /\ pc' = Ended("relaunched")
                 \/ pc' = Ended("exited")
  /\ UNCHANGED << supVars, op, startLocals, teardown, res, resp, restoreQ, synVars, genLocals,
                  cfgVars, bak, tmp, up, selVars, subLock >>

\* ------------------------------------------------- restore_last_proxy
\* the LastProxy values and the contents of .last_proxy
LastProxies == [group : {"proxy"}, name : {"a", "z"}]
LastProxyFile(q) == [state |-> "ok", group |-> q.group, name |-> q.name]
LastProxyFiles == {NoLastProxy, Garbage} \cup {LastProxyFile(q) : q \in LastProxies}
\* load_last_proxy (900-907)
load_last_proxy(f) ==
  IF f.state = "ok" THEN Some([group |-> f.group, name |-> f.name]) ELSE None

\* the answers to GET /proxies/<group>: no answer or no JSON, a document
\* without an "all" array, a document with one
GroupInfos ==
  {[ok |-> FALSE, all |-> None]}
    \cup [ok : {TRUE}, all : {None} \cup {Some(l) : l \in {<< >>, << "a" >>, << "a", "z" >>}}]

\* nodes.iter().any(|n| n.as_str() == Some(&proxy.name)) (956)
NodeExists_Always(info, name) == TRUE
NodeExists(info, name) ==
  /\ info.ok
  /\ info.all # None
  /\ \E i \in 1..Len(info.all[1]) : info.all[1][i] = name

\* POST /api/last-proxy (910-917)
set_last_proxy(t) ==
  /\ pc[Main] = "serving"
  /\ pc[t] = "idle"
  /\ op' = [op EXCEPT ![t] = "set_last_proxy"]
  /\ pc' = [pc EXCEPT ![t] = "respond"]
  /\ \E req \in LastProxies :
       \/ lastProxy' = LastProxyFile(req) /\ resp' = [resp EXCEPT ![t] = ApiSuccess(None)]
       \/ lastProxy' \in {lastProxy, Garbage} /\ resp' = [resp EXCEPT ![t] = ApiError(200)]
  /\ UNCHANGED << supVars, startLocals, teardown, res, restoreQ, synVars, genLocals, cfgVars,
                  upgVars, rst, puts, subLock >>

\* a detached task starts: load_last_proxy, then the 1 s sleep (920-929).  The
\* tasks share nothing but the file and the engine, and run here one at a time
restore_last_proxy ==
  /\ restoreQ > 0
  /\ rst.pc = "none"
  /\ restoreQ' = restoreQ - 1
  /\ rst' = IF load_last_proxy(lastProxy) = None
              THEN NoRestore
              ELSE [pc |-> "query", proxy |-> load_last_proxy(lastProxy), all |-> None]
  /\ UNCHANGED << supVars, pc, op, startLocals, teardown, res, resp, synVars, genLocals,
                  cfgVars, upgVars, lastProxy, puts, subLock >>

\* after the sleep: client, query of the group, check of its "all" array, PUT
\* (931-978); the engine answers only while one of its processes is alive
restore_query ==
  /\ rst.pc = "query"
  /\ \E info \in GroupInfos :
       /\ info.ok => \E p \in Pids : pstate[p] = "alive"
       /\ rst' = [pc |-> "none", proxy |-> rst.proxy, all |-> info.all]
       /\ puts' = IF NodeExists(info, rst.proxy[1].name)
                    THEN Append(puts, rst.proxy[1]) ELSE puts
  /\ UNCHANGED << supVars, pc, op, startLocals, teardown, res, resp, restoreQ, synVars,
                  genLocals, cfgVars, upgVars, lastProxy, subLock >>

\* --------------------------------------------------------- specifications
Next ==
  \/ \E p \in Pids : ProcessExit(p)
  \/ \E u \in Urls : NetChange(u)
  \/ \E t \in Tasks : Respond(t)
  \/ \E t \in Tasks : get_status(t)
  \/ \E t \in Tasks : start_service(t)
  \/ \E t \in Tasks : stop_service(t)
  \/ \E t \in Tasks : refresh_subs(t)
  \/ \E t \in Procs : gen_config_begin(t)
  \/ \E t \in Procs : gen_config_fetch(t)
  \/ \E t \in Procs : gen_config_write(t)
  \/ \E t \in Procs : start_sing_internal_spawn(t)
  \/ \E t \in Procs : start_sing_internal_settle(t)
  \/ \E t \in Procs : start_sing_internal_probe(t)
  \/ \E t \in Procs : stop_sing_internal_term(t)
  \/ \E t \in Procs : stop_sing_internal_poll(t)
  \/ \E t \in Procs : stop_sing_internal_wait(t)
  \/ restore_last_proxy

\* the whole program: main(), then the HTTP service
Spec == Init /\ [][Next]_vars

NextGen ==
  \/ gen_config_begin(Main)
  \/ gen_config_fetch(Main)
  \/ gen_config_write(Main)

\* the initial synthesis of main(), over every config and every server answer
SpecGen == InitGen /\ [][NextGen]_vars

\* main() after reading config.yaml (1492); the first server answers, the
\* second one does not
InitCfg ==
  /\ cfg = ServiceConfig
  /\ net = [u \in Urls |-> IF u = "u1" THEN OneFeed ELSE FetchErr]
  /\ engineCfg = NoFile
  /\ lastProxy = NoLastProxy
  /\ TaskInit

NextCfg ==
  \/ \E p \in Pids : ProcessExit(p)
  \/ \E t \in Tasks : Respond(t)
  \/ \E t \in Tasks : add_sub(t)
  \/ \E t \in Tasks : delete_sub(t)
  \/ \E t \in Tasks : add_node(t)
  \/ \E t \in Tasks : delete_node(t)
  \/ \E t \in Tasks : save_config(t)
  \/ \E t \in Procs : gen_config_begin(t)
  \/ \E t \in Procs : gen_config_fetch(t)
  \/ \E t \in Procs : gen_config_write(t)
  \/ \E t \in Procs : start_sing_internal_spawn(t)
  \/ \E t \in Procs : start_sing_internal_settle(t)
  \/ \E t \in Procs : start_sing_internal_probe(t)
  \/ \E t \in Procs : stop_sing_internal_term(t)
  \/ \E t \in Procs : stop_sing_internal_poll(t)
  \/ \E t \in Procs : stop_sing_internal_wait(t)

\* main(), then the HTTP service answering the config-mutating requests
SpecCfg == InitCfg /\ [][NextCfg]_vars

NextUpg ==
  \/ \E p \in Pids : ProcessExit(p)
  \/ \E t \in Tasks : Respond(t)
  \/ \E t \in Tasks : upgrade_release(t)
  \/ \E t \in Tasks : upgrade_download(t)
  \/ \E t \in Tasks : upgrade_verify(t)
  \/ \E t \in Tasks : upgrade_backup(t)
  \/ \E t \in Tasks : upgrade_backup_end(t)
  \/ \E t \in Tasks : upgrade_remove(t)
  \/ \E t \in Tasks : upgrade_copy(t)
  \/ \E t \in Tasks : upgrade_copy_end(t)
  \/ \E t \in Tasks : upgrade_chmod(t)
  \/ \E t \in Tasks : upgrade_restore(t)
  \/ upgrade_exec
  \/ \E t \in Procs : gen_config_begin(t)
  \/ \E t \in Procs : gen_config_fetch(t)
  \/ \E t \in Procs : gen_config_write(t)
  \/ \E t \in Procs : start_sing_internal_spawn(t)
  \/ \E t \in Procs : start_sing_internal_settle(t)
  \/ \E t \in Procs : start_sing_internal_probe(t)
  \/ \E t \in Procs : stop_sing_internal_term(t)
  \/ \E t \in Procs : stop_sing_internal_poll(t)
  \/ \E t \in Procs : stop_sing_internal_wait(t)

NextUpgStart ==
  \/ \E p \in Pids : ProcessExit(p)
  \/ \E t \in Tasks : Respond(t)
  \/ upgrade_release(NumTasks)
  \/ \E t \in Tasks : upgrade_download(t)
  \/ \E t \in Tasks : upgrade_verify(t)
  \/ \E t \in Tasks : upgrade_backup(t)
  \/ \E t \in Tasks : upgrade_backup_end(t)
  \/ \E t \in Tasks : upgrade_remove(t)
  \/ \E t \in Tasks : upgrade_copy(t)
  \/ \E t \in Tasks : upgrade_copy_end(t)
  \/ \E t \in Tasks : upgrade_chmod(t)
  \/ \E t \in Tasks : upgrade_restore(t)
  \/ upgrade_exec
  \/ \E t \in Tasks \ {NumTasks} : start_service(t)
  \/ \E t \in Procs : gen_config_begin(t)
  \/ \E t \in Procs : gen_config_fetch(t)
  \/ \E t \in Procs : gen_config_write(t)
  \/ \E t \in Procs : start_sing_internal_spawn(t)
  \/ \E t \in Procs : start_sing_internal_settle(t)
  \/ \E t \in Procs : start_sing_internal_probe(t)
  \/ \E t \in Procs : stop_sing_internal_term(t)
  \/ \E t \in Procs : stop_sing_internal_poll(t)
  \/ \E t \in Procs : stop_sing_internal_wait(t)

\* main(), then the HTTP service answering one upgrade request and the start
\* requests that arrive with it
SpecUpgStart == InitCfg /\ [][NextUpgStart]_vars

\* main() with any .last_proxy left by an earlier run
InitSel ==
  /\ cfg = ServiceConfig
  /\ net = [u \in Urls |-> IF u = "u1" THEN OneFeed ELSE FetchErr]
  /\ engineCfg = NoFile
  /\ lastProxy \in LastProxyFiles
  /\ TaskInit

NextSel ==
  \/ \E p \in Pids : ProcessExit(p)
  \/ \E t \in Tasks : Respond(t)
  \/ \E t \in Tasks : set_last_proxy(t)
  \/ \E t \in Tasks : start_service(t)
  \/ \E t \in Tasks : stop_service(t)
  \/ \E t \in Procs : gen_config_begin(t)
  \/ \E t \in Procs : gen_config_fetch(t)
  \/ \E t \in Procs : gen_config_write(t)
  \/ \E t \in Procs : start_sing_internal_spawn(t)
  \/ \E t \in Procs : start_sing_internal_settle(t)
  \/ \E t \in Procs : start_sing_internal_probe(t)
  \/ \E t \in Procs : stop_sing_internal_term(t)
  \/ \E t \in Procs : stop_sing_internal_poll(t)
  \/ \E t \in Procs : stop_sing_internal_wait(t)
  \/ restore_last_proxy
  \/ restore_query

\* main(), then the HTTP service starting and stopping the engine and saving
\* and restoring the proxy selection
SpecSel == InitSel /\ [][NextSel]_vars

\* What the scheduling grants: a task that sleeps or awaits an external call is
\* resumed (every call returns within its timeout), a task queued on the
\* SING_PROCESS mutex gets it when its turn comes (the tokio mutex is FIFO), and
\* a process that was sent SIGKILL exits
\* task t takes the SING_PROCESS mutex it waits for in start_sing_internal or
\* stop_sing_internal
Acquire(t) == start_sing_internal_spawn(t) \/ stop_sing_internal_term(t)
\* task t is resumed after a sleep or an external call
Resume(t) ==
  \/ start_sing_internal_settle(t) \/ start_sing_internal_probe(t)
  \/ stop_sing_internal_poll(t) \/ stop_sing_internal_wait(t)
  \/ gen_config_begin(t) \/ gen_config_fetch(t) \/ gen_config_write(t)
  \/ (t \in Tasks /\ Respond(t))
Fairness ==
  /\ \A t \in Procs : SF_vars(Acquire(t))
  /\ \A t \in Procs : WF_vars(Resume(t))
  /\ \A p \in Pids : WF_vars(sig[p] = "kill" /\ ProcessExit(p))

NextLive ==
  \/ \E p \in Pids : ProcessExit(p)
  \/ \E t \in Tasks : Respond(t)
  \/ \E t \in Tasks : get_status(t)
  \/ \E t \in Tasks : start_service(t)
  \/ \E t \in Tasks : stop_service(t)
  \/ \E t \in Tasks : refresh_subs(t)
  \/ \E t \in Procs : gen_config_begin(t)
  \/ \E t \in Procs : gen_config_fetch(t)
  \/ \E t \in Procs : gen_config_write(t)
  \/ \E t \in Procs : start_sing_internal_spawn(t)
  \/ \E t \in Procs : start_sing_internal_settle(t)
  \/ \E t \in Procs : start_sing_internal_probe(t)
  \/ \E t \in Procs : stop_sing_internal_term(t)
  \/ \E t \in Procs : stop_sing_internal_poll(t)
  \/ \E t \in Procs : stop_sing_internal_wait(t)

\* main(), then the HTTP service starting, stopping, querying and restarting the
\* engine, under that scheduling
SpecLive == InitCfg /\ [][NextLive]_vars /\ Fairness

NextLock ==
  \/ \E p \in Pids : ProcessExit(p)
  \/ \E t \in Tasks : Respond(t)
  \/ \E t \in Tasks : get_subs(t)
  \/ \E t \in Tasks : get_subs_second(t)
  \/ \E t \in Tasks : get_subs_read(t)
  \/ \E t \in Tasks : add_sub(t)
  \/ \E t \in Tasks : save_config(t)
  \/ \E t \in Tasks : refresh_subs(t)
  \/ \E t \in Tasks : stop_service(t)
  \/ \E t \in Tasks : get_status(t)
  \/ \E t \in Procs : gen_config_begin(t)
  \/ \E t \in Procs : gen_config_fetch(t)
  \/ \E t \in Procs : gen_config_write(t)
  \/ \E t \in Procs : start_sing_internal_spawn(t)
  \/ \E t \in Procs : start_sing_internal_settle(t)
  \/ \E t \in Procs : start_sing_internal_probe(t)
  \/ \E t \in Procs : stop_sing_internal_term(t)
  \/ \E t \in Procs : stop_sing_internal_poll(t)
  \/ \E t \in Procs : stop_sing_internal_wait(t)

\* main(), then the HTTP service answering the requests that take the config
\* lock, the subscription-status lock or the process lock
SpecLock == InitCfg /\ [][NextLock]_vars

\* main(), then the HTTP service answering upgrade requests
SpecUpg == InitCfg /\ [][NextUpg]_vars

NextNode ==
  \/ \E t \in Tasks : Respond(t)
  \/ \E t \in Tasks : add_node_any(t)
  \/ \E t \in Tasks : save_config(t)
  \/ \E t \in Tasks : get_nodes(t)
  \/ gen_config_begin(Main)
  \/ gen_config_fetch(Main)
  \/ gen_config_write(Main)
  \/ start_sing_internal_spawn(Main)
  \/ start_sing_internal_settle(Main)
  \/ start_sing_internal_probe(Main)

\* main(), then node creation with every request value and node listing; the
\* restart that follows a saved creation is left out
SpecNode == InitCfg /\ [][NextNode]_vars

\* ------------------------------------------------------------ step shapes
\* task t runs the already-running check of start_service or start_sing_internal
StartCheckStep(t) ==
  \/ pc[t] = "idle" /\ op'[t] = "start_service"
  \/ pc[t] = "si_lock" /\ pc'[t] # "si_lock"
\* task t runs a step of stop_sing_internal
StopStep(t) ==
  \/ pc[t] = "idle" /\ op'[t] = "stop_service"
  \/ pc[t] \in {"st_lock", "st_poll", "st_wait"} /\ pc'[t] # pc[t]
\* task t's stop_sing_internal returns in this step
StopEnds(t) == StopStep(t) /\ pc'[t] \notin {"st_poll", "st_wait"}
\* task t runs get_status
StatusStep(t) == pc[t] = "idle" /\ op'[t] = "get_status"
\* task t takes the SING_PROCESS lock in this step
TakesProcessLock(t) ==
  \/ pc[t] = "idle" /\ op'[t] \in {"get_status", "start_service", "stop_service"}
  \/ pc[t] \in {"si_lock", "st_lock"} /\ pc'[t] # pc[t]
\* task t is inside the stop, pause, start sequence of regenerate_and_restart
InRestart(t) ==
  /\ op[t] = "refresh_subs"
  /\ pc[t] \in {"st_poll", "st_wait", "si_lock", "si_settle", "si_probe"} \/ teardown[t]
\* a start other than t's has spawned a process and is in its settle or probe phase
Starting(t) == \E u \in Procs \ {t} : pc[u] \in {"si_settle", "si_probe"}
AliveProcs == {p \in Pids : pstate[p] = "alive"}

\* ------------------------------------------------------------------ claims
\* C1: at every moment at most one engine child process is alive, whatever the
\* interleaving of start, stop, status and regenerate-and-restart
C1_AtMostOneAlive == Cardinality(AliveProcs) <= 1

\* C1 case: a second engine runs after the first one exited, tracked by the handle,
\* while another handler is waiting to start one
C1_SecondEngineAlive ==
  /\ nspawn = 2 /\ pstate[1] = "exited" /\ pstate[2] = "alive" /\ handle = 2
  /\ \E t \in Tasks : pc[t] = "si_lock"

\* C2: a start holds the process lock for its whole duration: the settle wait,
\* the connectivity probe and the teardown after a failed probe
C2_LockHeldThroughStart ==
  \A t \in Procs :
    (pc[t] \in {"si_settle", "si_probe"}
       \/ (teardown[t] /\ pc[t] \in {"st_lock", "st_poll", "st_wait"}))
    => lock = t

\* C3: a restart is atomic: from the beginning of its stop to the end of its start
\* no other request takes the process lock, and a restart never fails with the
\* already-running error
C3_RestartAtomic ==
  [][\A t \in Tasks :
       /\ InRestart(t) => \A u \in Tasks \ {t} : ~TakesProcessLock(u)
       /\ op[t] = "refresh_subs" => res'[t].kind # "already_running"]_vars

\* C4: a start whose check runs while a live process is tracked, or while another
\* start is in its settle or probe phase, is refused as already running and
\* spawns no process
C4_StartRefusedWhileRunningOrStarting ==
  [][\A t \in Tasks :
       (StartCheckStep(t) /\ (IsRunning(handle, pstate) \/ Starting(t)))
       => /\ nspawn' = nspawn
          /\ res'[t].kind = "already_running" \/ resp'[t] = ApiError(400)]_vars

\* C5: a start returns the connectivity-failed error only after PROBE_ATTEMPTS
\* failed attempts, and at that return the handle is cleared and the process the
\* start spawned has exited; a start whose last attempt fails goes on to the
\* teardown, and from there it can only return that error
C5_ProbeFailureTearsDown ==
  [][\A t \in Procs :
       /\ (res'[t].kind = "connectivity_failed" /\ res[t].kind # "connectivity_failed")
          => /\ attempt[t] = PROBE_ATTEMPTS
             /\ child[t] # NoProc
             /\ pstate'[child[t]] = "exited"
             /\ handle' = NoProc
             /\ lock' = Free
       /\ (pc[t] = "si_probe" /\ attempt[t] = PROBE_ATTEMPTS /\ pc'[t] # "si_probe"
             /\ res'[t].kind # "ok")
          => teardown'[t]
       /\ (teardown[t] /\ res'[t] # res[t]) => res'[t].kind = "connectivity_failed"]_vars

\* C5 case: a start request has returned the connectivity-failed error
C5_ConnectivityFailed ==
  \E t \in Tasks : pc[t] = "respond" /\ op[t] = "start_service"
                   /\ res[t].kind = "connectivity_failed" /\ resp[t] = ApiError(500)

\* C6: stop always succeeds and ends with the handle cleared and the process it
\* found tracked not alive; on a supervisor with no handle it sends no signal
\* and changes nothing
C6_StopEndsStopped ==
  [][\A t \in Procs :
       StopEnds(t)
       => /\ handle' = NoProc
          /\ handle # NoProc => pstate'[handle] # "alive"
          /\ op'[t] = "stop_service" => resp'[t] = ApiSuccess(None)
          /\ handle = NoProc => (sig' = sig /\ pstate' = pstate /\ lock' = lock
                                 /\ nspawn' = nspawn)]_vars

\* C6 case: two consecutive stop requests have both returned success, the second
\* one having found the supervisor stopped
C6_TwoStopsDone ==
  /\ \A t \in Tasks : pc[t] = "respond" /\ op[t] = "stop_service"
                      /\ resp[t] = ApiSuccess(None)
  /\ handle = NoProc /\ nspawn >= 1 /\ AliveProcs = {}

\* C7: stop sends SIGTERM first, force-kills only a process that was sent SIGTERM
\* and was still alive after STOP_POLLS polls, and does not return from the wait
\* that follows the kill before the process has exited
C7_GracefulThenForced ==
  [][\A p \in Pids :
       /\ (sig'[p] # sig[p] /\ sig'[p] # "none") => (sig'[p] = "term") = (sig[p] = "none")
       /\ (sig'[p] = "kill" /\ sig[p] # "kill")
          => /\ sig[p] = "term" /\ pstate[p] = "alive" /\ handle = p
             /\ lock \in Procs /\ polls'[lock] = STOP_POLLS
       /\ \A t \in Procs : (pc[t] = "st_wait" /\ pc'[t] # "st_wait")
                           => pstate[handle] = "exited"]_vars

\* C7 case: a stop request has issued the forced kill after its polls and is
\* waiting for the exit of the process
C7_ForcedKillIssued ==
  \E t \in Tasks : /\ pc[t] = "st_wait" /\ op[t] = "stop_service" /\ lock = t
                   /\ polls[t] = STOP_POLLS
                   /\ handle # NoProc /\ sig[handle] = "kill" /\ pstate[handle] = "alive"

\* C8: a start whose child has exited by the end of the settle wait returns an
\* error carrying the exit code, stores no handle, runs no probe and leaves the
\* supervisor stopped; otherwise the start stores its child and goes on
C8_ImmediateExit ==
  [][\A t \in Procs :
       (pc[t] = "si_settle" /\ pc'[t] # "si_settle")
       => IF pstate[child[t]] # "alive"
            THEN /\ res'[t].kind = "immediate_exit"
                 /\ res'[t].code \in {ExitCode(st) : st \in ExitStatuses}
                 /\ handle' = handle /\ handle' # child[t]
                 /\ ~IsRunning(handle', pstate')
                 /\ ~StatusData(handle', pstate').running
                 /\ attempt'[t] = 0
                 /\ restoreQ' = restoreQ
                 /\ lock' = Free
                 /\ t # Main => resp'[t] = ApiError(500)
            ELSE res'[t] = res[t] /\ handle' = child[t]]_vars

\* C8 case: a start request has returned the immediate-exit error
C8_ImmediateExitReturned ==
  \E t \in Tasks : /\ pc[t] = "respond" /\ op[t] = "start_service"
                   /\ res[t].kind = "immediate_exit" /\ child[t] # NoProc
                   /\ pstate[child[t]] = "exited" /\ handle # child[t]

\* C9: status clears the handle of an exited child and reports running false
\* with no pid and no uptime; for a live child it reports running true with its
\* pid and leaves the handle unchanged; a start whose check finds the handle
\* cleared is not refused as already running
C9_StatusSelfHealing ==
  [][\A t \in Tasks :
       /\ StatusStep(t)
          => LET d == resp'[t].data[1]
             IN IF handle # NoProc /\ pstate[handle] = "alive"
                  THEN d.running /\ d.pid = Some(handle) /\ d.uptime_secs # None
                       /\ handle' = handle
                  ELSE ~d.running /\ d.pid = None /\ d.uptime_secs = None
                       /\ handle' = NoProc
       /\ (StartCheckStep(t) /\ handle = NoProc)
          => (res'[t].kind # "already_running" /\ resp'[t] # ApiError(400))]_vars

\* C9 case: the first engine has exited, a status request has reported it not
\* running with the handle cleared, and a start issued after it has spawned
C9_HealedThenStarted ==
  \E t \in Tasks : \E u \in Tasks \ {t} :
    /\ pc[t] = "respond" /\ op[t] = "get_status"
    /\ resp[t].data = Some([running |-> FALSE, pid |-> None, uptime_secs |-> None])
    /\ handle = NoProc /\ pstate[1] = "exited"
    /\ op[u] = "start_service" /\ pc[u] = "si_settle" /\ child[u] = 2

\* ------------------------------------------------- synthesis, recomputed
RECURSIVE ManualTags(_)
\* the tags of the manual nodes that are JSON objects with a string tag, in order
ManualTags(nodes) ==
  IF nodes = << >> THEN << >>
  ELSE (IF Head(nodes).valid /\ Head(nodes).tag # None
          THEN << Head(nodes).tag[1] >> ELSE << >>) \o ManualTags(Tail(nodes))

RECURSIVE FeedTags(_)
\* the names of the supported proxies of one subscription document, in order
FeedTags(ps) ==
  IF ps = << >> THEN << >>
  ELSE (IF Head(ps).type \in {"hysteria2", "anytls", "ss"}
          THEN << IF Head(ps).name = None THEN "" ELSE Head(ps).name[1] >>
          ELSE << >>) \o FeedTags(Tail(ps))

RECURSIVE FetchedTags(_)
\* the tags fetched from the subscriptions that answered, in subscription order
FetchedTags(subs) ==
  IF subs = << >> THEN << >>
  ELSE (IF net[Head(subs)].ok THEN FeedTags(net[Head(subs)].proxies) ELSE << >>)
       \o FetchedTags(Tail(subs))

\* C10: the member list of the written selector is the manual tags followed by
\* the fetched tags: its length is the sum of the two counts and the manual tags
\* come first, in order
C10_MembersManualThenFetched ==
  gres[Main] = "ok"
  => LET manual == ManualTags(cfg.nodes)
         fetched == FetchedTags(cfg.subs)
         members == engineCfg.members
     IN /\ engineCfg.state = "complete"
        /\ Len(members) = Len(manual) + Len(fetched)
        /\ \A i \in 1..Len(manual) : members[i] = manual[i]
        /\ \A i \in 1..Len(fetched) : members[Len(manual) + i] = fetched[i]

\* C10 case: a config with tagged manual nodes and two answering subscriptions
\* has been synthesized
C10_ManualAndFetchedWritten ==
  /\ gres[Main] = "ok"
  /\ Len(cfg.subs) = 2 /\ \A u \in Urls : net[u].ok /\ Len(FeedTags(net[u].proxies)) >= 1
  /\ Len(ManualTags(cfg.nodes)) >= 1
  /\ Len(cfg.nodes) > Len(ManualTags(cfg.nodes))
  /\ engineCfg.members # FetchedTags(cfg.subs) \o ManualTags(cfg.nodes)

\* no manual node parses and no subscription yields a node
MergedEmpty ==
  /\ \A i \in 1..Len(cfg.nodes) : ~cfg.nodes[i].valid
  /\ FetchedTags(cfg.subs) = << >>
\* the node outbound objects of the written document: all but the template's
NodeObjects ==
  SubSeq(engineCfg.outbounds, Len(TemplateOutbounds) + 1, Len(engineCfg.outbounds))

\* C11: when the merged node set is empty, synthesis fails with the no-nodes
\* error and leaves the engine config file as it was; when it is not empty,
\* synthesis does not fail with that error
C11_NoNodesNoWrite ==
  [][(pc[Main] = "gc_write" /\ pc'[Main] # "gc_write")
     => IF MergedEmpty
          THEN gres'[Main] = "no_nodes" /\ engineCfg' = engineCfg
          ELSE gres'[Main] # "no_nodes"]_vars

\* C11 case: one subscription answered without a usable proxy, the other failed,
\* the only manual node does not parse; synthesis failed and the old file is there
C11_NoNodesOldFileKept ==
  /\ gres[Main] = "no_nodes" /\ engineCfg = OldConfig
  /\ Len(cfg.subs) = 2 /\ Len(cfg.nodes) >= 1
  /\ net["u1"].ok /\ Len(net["u1"].proxies) >= 1 /\ ~net["u2"].ok

\* C12: after a successful synthesis every failed subscription has a status with
\* success false and an error, every subscription that returned nodes has
\* success true with its node count, and the document ends with the outbounds
\* of the subscriptions that answered, in order
C12_FailedFeedDoesNotAbort ==
  gres[Main] = "ok"
  => /\ \A i \in 1..Len(cfg.subs) :
          LET u == cfg.subs[i]
              o == net[u]
          IN /\ u \in DOMAIN subStatus
             /\ subStatus[u].url = u
             /\ ~o.ok => (~subStatus[u].success /\ subStatus[u].error # None
                          /\ subStatus[u].node_count = 0)
             /\ (o.ok /\ FeedTags(o.proxies) # << >>)
                => (subStatus[u].success /\ subStatus[u].error = None
                    /\ subStatus[u].node_count = Len(FeedTags(o.proxies)))
     /\ LET fetched == FetchedTags(cfg.subs)
            k == Len(NodeObjects) - Len(fetched)
        IN /\ k >= 0
           /\ \A j \in 1..Len(fetched) : NodeObjects[k + j].tag = Some(fetched[j])

\* C12 case: the first subscription failed, the second returned two nodes, there
\* is no manual node, and the config was written
C12_OneFeedFailedOtherWritten ==
  /\ gres[Main] = "ok" /\ cfg.subs = << "u1", "u2" >> /\ cfg.nodes = << >>
  /\ ~net["u1"].ok /\ net["u2"].ok
  /\ "u2" \in DOMAIN subStatus /\ subStatus["u2"].node_count = 2
  /\ Len(engineCfg.members) = 2

\* C13: the engine config file is never left truncated or partial
C13_ConfigNeverPartial == engineCfg.state # "partial"

\* C14: in a written config every member of the selector is the tag of a node
\* outbound object, and every node outbound object with a tag is a member
C14_MembersMatchOutbounds ==
  gres[Main] = "ok"
  => /\ \A i \in 1..Len(engineCfg.members) :
          \E j \in 1..Len(NodeObjects) : NodeObjects[j].tag = Some(engineCfg.members[i])
     /\ \A j \in 1..Len(NodeObjects) :
          NodeObjects[j].tag # None
          => \E i \in 1..Len(engineCfg.members) : engineCfg.members[i] = NodeObjects[j].tag[1]
     /\ Len(engineCfg.members)
          = Cardinality({j \in 1..Len(NodeObjects) : NodeObjects[j].tag # None})

\* C14 case: a written config with manual and fetched members and a manual node
\* without a tag
C14_TaggedAndUntaggedWritten ==
  /\ gres[Main] = "ok"
  /\ Len(ManualTags(cfg.nodes)) >= 1 /\ Len(FetchedTags(cfg.subs)) >= 1
  /\ \E j \in 1..Len(NodeObjects) : NodeObjects[j].tag = None

\* C15: in a written config no two node outbound objects share a tag
C15_TagsUnique ==
  gres[Main] = "ok"
  => \A i \in 1..Len(NodeObjects) : \A j \in 1..Len(NodeObjects) :
       (i # j /\ NodeObjects[i].tag # None) => NodeObjects[i].tag # NodeObjects[j].tag

\* ------------------------------------------------- config mutation claims
Mutations == {"add_sub", "delete_sub", "add_node", "delete_node"}
\* the positions of a task inside regenerate_and_restart
RestartPcs == {"gc_begin", "gc_fetch", "gc_write", "st_lock", "st_poll", "st_wait",
               "si_lock", "si_settle", "si_probe"}
\* the config c shows the effect of the request of task t
Applied(t, c) ==
  CASE op[t] = "add_sub" -> HasSub(c, arg[t].name)
    [] op[t] = "delete_sub" -> ~HasSub(c, arg[t].name)
    [] op[t] = "add_node" -> HasNode(c, arg[t].name)
    [] op[t] = "delete_node" -> ~HasNode(c, arg[t].name)
    [] OTHER -> TRUE
\* C16: a mutating request enters regenerate_and_restart only from a save that
\* succeeded, with its mutation persisted; up to there it does not touch the
\* engine config or the engine; when the save fails it answers 500 and ends
C16_PersistBeforeRestart ==
  [][\A t \in Tasks :
       /\ (op'[t] \in Mutations /\ pc'[t] \in RestartPcs /\ pc[t] \notin RestartPcs)
          => /\ pc[t] = "save" /\ pc'[t] = "gc_begin"
             /\ disk' = [content |-> cfg, state |-> "complete"]
             /\ Applied(t, disk'.content)
             /\ snap'[t] = disk'.content
       /\ (op'[t] \in Mutations /\ pc[t] \in {"idle", "save"} /\ pc'[t] # pc[t])
          => (engineCfg' = engineCfg /\ supVars' = supVars /\ gres'[t] = "none")
       /\ (pc[t] = "save" /\ pc'[t] # "save" /\ disk' # [content |-> cfg, state |-> "complete"])
          => (pc'[t] = "respond" /\ resp'[t] = ApiError(500))]_vars

\* C16 case: one request was answered 500 after its save failed, without its node
\* persisted, while another one, saved, is restarting the engine
C16_SaveFailedAndSavedRestarting ==
  \E t \in Tasks : \E u \in Tasks \ {t} :
    /\ op[t] = "add_node" /\ pc[t] = "respond" /\ resp[t] = ApiError(500)
    /\ gres[t] = "none" /\ disk.state = "complete" /\ ~HasNode(disk.content, arg[t].name)
    /\ op[u] \in Mutations /\ pc[u] = "si_settle"

\* C17: while no save has failed, the successful save of a mutating request
\* persists its own effect and keeps every other subscription and node that was
\* persisted before it, so no earlier write is lost
C17_NoLostWrite ==
  [][\A t \in Tasks :
       (op[t] \in Mutations /\ pc[t] = "save" /\ pc'[t] = "gc_begin" /\ ~saveFailed)
       => /\ disk'.state = "complete"
          /\ Applied(t, disk'.content)
          /\ \A u \in Urls :
               (op[t] \in {"add_node", "delete_node"} \/ u # arg[t].name)
               => (HasSub(disk'.content, u) <=> HasSub(disk.content, u))
          /\ \A g \in NodeTags :
               (op[t] \in {"add_sub", "delete_sub"} \/ g # arg[t].name)
               => (HasNode(disk'.content, g) <=> HasNode(disk.content, g))]_vars

\* C17 case: two concurrent add-node requests with distinct tags have both
\* returned after successful saves and both nodes are persisted
C17_TwoAddsPersisted ==
  /\ ~saveFailed
  /\ \A t \in Tasks : op[t] = "add_node" /\ pc[t] = "respond" /\ gres[t] # "none"
  /\ HasNode(disk.content, "m") /\ HasNode(disk.content, "n")

\* C18: once all concurrent mutating requests have returned success, the engine
\* config on disk is the one synthesized from the final persisted config
C18_EngineConfigFromFinalConfig ==
  (/\ ~saveFailed
   /\ \A t \in Tasks : op[t] \in Mutations /\ pc[t] = "respond"
                       /\ resp[t] = ApiSuccess(None))
  => /\ disk.state = "complete"
     /\ engineCfg.state = "complete"
     /\ engineCfg.members = ManualTags(disk.content.nodes) \o FetchedTags(disk.content.subs)

\* ------------------------------------------------------------ upgrade claims
\* C19: at every point of an upgrade a complete executable of the original build
\* is in place, at the path of the executable or at the backup path
C19_OriginalOrBackupInPlace ==
  exe = "orig" \/ bak = "orig"

\* the positions of upgrade up to and including the verification of the candidate
BeforeStop == {"idle", "up_download", "up_verify"}

\* C20: an upgrade whose candidate fails the verification returns an error and
\* removes the temp file; up to that return it has changed neither the
\* executable nor the backup path and has not touched the engine
C20_VerificationFailureHarmless ==
  [][\A t \in Tasks :
       pc'[Main] = "serving"
       => /\ (pc[t] = "up_verify" /\ tmp \notin Runnable /\ pc'[t] # "up_verify")
             => /\ pc'[t] = "respond"
                /\ resp'[t] = ApiError(200)
                /\ up'[t].msg = "verification"
                /\ tmp' = Absent
          /\ (op'[t] = "upgrade" /\ pc[t] \in BeforeStop /\ pc'[t] # pc[t]
                /\ pc'[t] \in BeforeStop \cup {"respond"})
             => /\ exe' = exe
                /\ bak' = bak
                /\ supVars' = supVars
                /\ execTask' = execTask]_vars

\* C20 case: an upgrade has returned the verification error: the original
\* executable is in place, there is no backup and no temp file, the engine runs
C20_VerificationFailed ==
  \E t \in Tasks :
    /\ pc[t] = "respond" /\ op[t] = "upgrade" /\ up[t].msg = "verification"
    /\ resp[t] = ApiError(200)
    /\ exe = "orig" /\ bak = Absent /\ tmp = Absent
    /\ IsRunning(handle, pstate)

\* the positions of a task inside stop_sing_internal
StopPcs == {"st_lock", "st_poll", "st_wait"}
\* the positions of upgrade at which it writes the executable or the backup
SwapPcs == {"up_backup", "up_backup_end", "up_remove", "up_copy", "up_copy_end",
            "up_chmod", "up_restore"}

\* C21: an upgrade calls stop_sing_internal only with a candidate that passed
\* the verification, reaches the backup step only by the return of that call,
\* whatever the call found, and nothing but an upgrade past that return changes
\* the executable or the backup
C21_SwapAfterVerifyAndStop ==
  [][pc'[Main] = "serving"
     => /\ \A t \in Tasks :
             /\ (op[t] = "upgrade" /\ pc'[t] \in StopPcs /\ pc[t] \notin StopPcs)
                => (pc[t] = "up_verify" /\ tmp \in Runnable)
             /\ (op[t] = "upgrade" /\ pc'[t] \in SwapPcs /\ pc[t] \notin SwapPcs)
                => (pc[t] \in StopPcs /\ lock' # t /\ handle' = NoProc)
             /\ (op[t] = "upgrade" /\ pc[t] \in StopPcs /\ pc'[t] \notin StopPcs)
                => pc'[t] = "up_backup"
        /\ (exe' # exe \/ bak' # bak)
           => \E t \in Tasks : op[t] = "upgrade" /\ pc[t] \in SwapPcs /\ pc'[t] # pc[t]]_vars

\* C21 case: an upgrade has made its backup after stopping a running engine
C21_BackupAfterEngineStopped ==
  \E t \in Tasks :
    /\ op[t] = "upgrade" /\ pc[t] = "up_remove"
    /\ exe = "orig" /\ bak = "orig"
    /\ handle = NoProc /\ \E p \in Pids : pstate[p] = "exited"
    /\ \A u \in Tasks \ {t} : op[u] = "none"


\* the tag v has three numeric parts and is greater than the running version
StrictlyNewer(v) ==
  /\ Len(v) = 3
  /\ \A i \in 1..3 : v[i] >= 0
  /\ \E i \in 1..3 : v[i] > VERSION[i] /\ \A j \in 1..(i - 1) : v[j] = VERSION[j]

\* C22: an upgrade that has read a release whose tag is not strictly newer than
\* the running version returns success without data and changes no file, no
\* engine state and spawns no task; it goes on to the download only with a
\* strictly newer tag
C22_NotNewerIsNoOp ==
  [][\A t \in Tasks :
       (pc[t] = "idle" /\ op'[t] = "upgrade" /\ up'[t].tag # None)
       => IF StrictlyNewer(up'[t].tag[1])
            THEN up'[t].msg # "up_to_date"
            ELSE /\ pc'[t] = "respond"
                 /\ resp'[t] = ApiSuccess(None)
                 /\ up'[t].msg = "up_to_date"
                 /\ << exe, bak, tmp, unlinked, execTask >>' = << exe, bak, tmp, unlinked, execTask >>
                 /\ supVars' = supVars]_vars

\* C22 case: an upgrade has returned "up to date" for a tag that is not of the
\* form MAJOR.MINOR.PATCH, with the engine running and no file touched
C22_MalformedTagUpToDate ==
  \E t \in Tasks :
    /\ op[t] = "upgrade" /\ pc[t] = "respond" /\ up[t].msg = "up_to_date"
    /\ up[t].tag = Some(<< 1, 0 >>)
    /\ resp[t] = ApiSuccess(None)
    /\ exe = "orig" /\ bak = Absent /\ tmp = Absent
    /\ IsRunning(handle, pstate)


\* C23: the re-exec task ends the process in every case: the new executable
\* takes over, or, exec having failed, the executable restored from the backup
\* takes over, or the process exits; after that no task of the old process
\* takes a step
C23_NoControlPlaneAfterFailedExec ==
  [][/\ (execTask /\ ~execTask')
        => /\ \A p \in Procs : pc'[p] \in EndStates
           /\ pc'[Main] = "replaced" => (exe' = exe /\ exe \in Runnable)
           /\ pc'[Main] = "relaunched" => (exe' = bak /\ exe' \in Runnable /\ exe # Absent)
     /\ pc[Main] \in EndStates
        => << pc, op, resp, lock, handle, nspawn, exe, bak, tmp, execTask, up >>'
             = << pc, op, resp, lock, handle, nspawn, exe, bak, tmp, execTask, up >>]_vars

\* C23 case: exec of the new executable failed, the original was restored from
\* the backup and launched
C23_RestoredAndRelaunched ==
  /\ pc[Main] = "relaunched"
  /\ exe = "orig" /\ bak = "orig" /\ unlinked


\* what a node request submitted, in the shape of a listed node
Submitted(r) ==
  [tag |-> r.name, server |-> r.server, server_port |-> r.server_port, sni |-> r.sni]

\* C24: the listing answered while a creation has been saved has an entry with
\* the tag, server, port and SNI that the creation submitted
C24_NodeRoundTrip ==
  [][\A u \in Tasks :
       (pc[u] = "idle" /\ op'[u] = "get_nodes")
       => \A t \in Tasks :
            (op[t] = "add_node" /\ pc[t] = "gc_begin")
            => \E i \in 1..Len(resp'[u].data[1]) :
                 resp'[u].data[1][i] = Submitted(arg[t])]_vars


\* ------------------------------------------------------ selection claims
\* C25: a selection update is sent only by the restore task that has queried
\* the group and found the persisted member in the "all" list of the answer, and
\* it names that member; with no parsable file the task ends at once, with no
\* list or without the member in it the task ends without an update; no step of
\* the task changes a response or the position of a handler
C25_PutOnlyAfterMemberFound ==
  [][/\ puts' # puts
        => /\ rst.pc = "query"
           /\ rst'.all # None
           /\ \E i \in 1..Len(rst'.all[1]) : rst'.all[1][i] = rst.proxy[1].name
           /\ puts' = Append(puts, rst.proxy[1])
     /\ (restoreQ' < restoreQ /\ lastProxy.state \in {"absent", "garbage"})
        => (rst' = NoRestore /\ puts' = puts)
     /\ (rst.pc = "query" /\ rst'.pc = "none"
           /\ (rst'.all = None
                 \/ \A i \in 1..Len(rst'.all[1]) : rst'.all[1][i] # rst.proxy[1].name))
        => puts' = puts
     /\ (restoreQ' < restoreQ \/ rst' # rst)
        => (pc' = pc /\ resp' = resp /\ res' = res)]_vars

\* C25 case: the restore task has found the persisted member z in the list of
\* the group and has sent the update for it
C25_MemberFoundAndPut ==
  /\ Len(puts) = 1 /\ puts[1] = [group |-> "proxy", name |-> "z"]
  /\ rst = [pc |-> "none", proxy |-> Some(puts[1]), all |-> Some(<< "a", "z" >>)]


\* the positions of a task inside start_sing_internal
StartPcs == {"si_lock", "si_settle", "si_probe"}

\* C26: one restore task is spawned by the step in which start_sing_internal
\* returns Ok to main, start_service or regenerate_and_restart, and by no other
\* step; that step gives the handler its response, the restore not yet run
C26_RestoreAfterSuccessfulStart ==
  [][/\ restoreQ' > restoreQ
        => /\ restoreQ' = restoreQ + 1
           /\ \E t \in Procs :
                /\ pc[t] \in StartPcs /\ pc'[t] \notin StartPcs
                /\ res'[t].kind = "ok"
                /\ op[t] \in {"main", "start_service", "refresh_subs", "add_sub",
                              "delete_sub", "add_node", "delete_node"}
                /\ IF t = Main THEN pc'[t] = "serving"
                   ELSE pc'[t] = "respond" /\ resp'[t] = ApiSuccess(None)
     /\ \A t \in Procs :
          (pc[t] \in StartPcs \cup StopPcs /\ pc'[t] \in {"serving", "respond"})
          => IF res'[t].kind = "ok" THEN restoreQ' = restoreQ + 1
             ELSE restoreQ' = restoreQ]_vars

\* C26 case: a refresh has its success response while the restore tasks of the
\* startup and of its own restart have not run
C26_ResponseBeforeRestore ==
  \E t \in Tasks :
    /\ op[t] = "refresh_subs" /\ pc[t] = "respond" /\ resp[t] = ApiSuccess(None)
    /\ restoreQ = 2


\* ------------------------------------------------------ status map claims
\* C27: when no request is in flight, every save having succeeded, every key
\* of SUB_STATUS is a subscription of the persisted config
C27_NoStaleStatus ==
  (/\ pc[Main] = "serving"
   /\ \A t \in Tasks : pc[t] \in {"idle", "respond"}
   /\ ~saveFailed)
  => \A u \in DOMAIN subStatus : HasSub(disk.content, u)


\* the positions of a task inside gen_config
GenPcs == {"gc_begin", "gc_fetch", "gc_write"}

\* C28: no step of gen_config inside a request touches the engine, and when
\* gen_config returns an error the request answers 500 at once: no signal, no
\* change of the handle, no spawn, no restore task
C28_FailedSynthesisLeavesEngine ==
  [][\A t \in Tasks :
       (pc[t] \in GenPcs /\ pc'[t] # pc[t])
       => /\ supVars' = supVars
          /\ restoreQ' = restoreQ
          /\ gres'[t] \notin {"none", "ok"}
             => (pc'[t] = "respond" /\ resp'[t] = ApiError(500))]_vars

\* C28 case: the deletion of the only subscription found no node and answered
\* 500; the engine started by main is still running on its config
C28_NoNodesEngineRunning ==
  \E t \in Tasks :
    /\ op[t] = "delete_sub" /\ pc[t] = "respond" /\ gres[t] = "no_nodes"
    /\ resp[t] = ApiError(500)
    /\ IsRunning(handle, pstate) /\ nspawn = 1
    /\ engineCfg.state = "complete" /\ engineCfg.members = << "a" >>


\* ------------------------------------------------------ response claims
\* C29: a start request that finds the engine running is answered 409 with
\* success = false
C29_StartWhileRunning409 ==
  [][\A t \in Tasks :
       (pc[t] = "idle" /\ op'[t] = "start_service"
          /\ handle # NoProc /\ pstate[handle] = "alive")
       => (pc'[t] = "respond" /\ resp'[t] = ApiError(409))]_vars

\* the request r of operation o is one the handler rejects on the config c
Rejected(o, r, c) ==
  CASE o = "add_sub" -> \E i \in 1..Len(c.subs) : c.subs[i] = r.name
    [] o = "delete_sub" -> \A i \in 1..Len(c.subs) : c.subs[i] # r.name
    [] o = "add_node" ->
         \E i \in 1..Len(c.nodes) : c.nodes[i].valid /\ c.nodes[i].tag = Some(r.name)
    [] o = "delete_node" ->
         \A i \in 1..Len(c.nodes) : ~(c.nodes[i].valid /\ c.nodes[i].tag = Some(r.name))
    [] OTHER -> FALSE

\* C30: a mutation that adds what is present is answered 400 and one that
\* deletes what is absent 404, in the step that checks it; that step changes
\* neither config nor the engine config nor the engine, and the handler then
\* has nothing left but to send the response
C30_RejectedMutationNoEffect ==
  [][\A t \in Tasks :
       (pc[t] = "idle" /\ op'[t] \in Mutations /\ Rejected(op'[t], arg'[t], cfg))
       => /\ pc'[t] = "respond"
          /\ resp'[t] = ApiError(IF op'[t] \in {"add_sub", "add_node"} THEN 400 ELSE 404)
          /\ cfg' = cfg /\ disk' = disk /\ cfgLock' = cfgLock
          /\ engineCfg' = engineCfg /\ subStatus' = subStatus
          /\ supVars' = supVars /\ restoreQ' = restoreQ]_vars

\* C30 case: a duplicate subscription was answered 400 and the deletion of an
\* absent node 404, the configs being those of the startup
C30_DuplicateAndAbsentRejected ==
  \E t \in Tasks : \E u \in Tasks :
    /\ op[t] = "add_sub" /\ pc[t] = "respond" /\ resp[t] = ApiError(400)
    /\ op[u] = "delete_node" /\ pc[u] = "respond" /\ resp[u] = ApiError(404)
    /\ cfg = ServiceConfig /\ disk.content = ServiceConfig /\ nmut = 0
    /\ IsRunning(handle, pstate)


\* ------------------------------------------------------ supervisor claims
\* C31: every holder of the process lock releases it, every task waiting for the
\* lock in a start or a stop gets it, and every start, stop, status and restart
\* request is answered
C31_LockAlwaysReleased ==
  /\ \A t \in Procs : (lock = t) ~> (lock = Free)
  /\ \A t \in Procs :
       (pc[t] \in {"si_lock", "si_settle", "si_probe", "st_lock", "st_poll", "st_wait"}
          \/ (t \in Tasks /\ pc[t] \in {"gc_begin", "gc_fetch", "gc_write"}))
         ~> (pc[t] \in {"respond", "serving"})

\* C31 case: a stop holds the lock waiting for the force-killed engine to exit
\* while another request waits for the lock
C31_WaitingBehindForcedKill ==
  \E t \in Tasks : \E u \in Tasks :
    /\ lock = t /\ pc[t] = "st_wait" /\ sig[handle] = ForceSignal
    /\ pc[u] \in {"si_lock", "st_lock"}


\* the task holding the mutex that task t is queued on, or Free
WaitsOn(t) ==
  CASE pc[t] \in {"si_lock", "st_lock"} -> lock
    [] pc[t] \in {"gc_begin", "gc_fetch"} -> subLock
    [] pc[t] = "gs_second" -> IF GetSubsOrder[2] = "config" THEN cfgLock ELSE subLock
    [] OTHER -> Free
\* task t takes the config lock in this step
TakesConfigLock(t) ==
  \/ pc[t] = "idle" /\ op'[t] \in Mutations \cup {"refresh_subs"}
  \/ cfgLock # t /\ cfgLock' = t

\* C32: no set of tasks waits in a circle for locks its own members hold; no
\* task takes the config lock while it holds the process lock or the
\* subscription-status lock, and none takes the process lock while it holds the
\* subscription-status lock
C32_LockOrder ==
  /\ [](\A S \in (SUBSET Procs) \ {{}} : \E t \in S : WaitsOn(t) \notin S)
  /\ [][\A t \in Procs :
          /\ TakesConfigLock(t) => (lock # t /\ subLock # t)
          /\ TakesProcessLock(t) => subLock # t]_vars

\* C32 case: get_subs holds the config lock and the subscription-status lock
\* while a synthesis waits for the latter
C32_BothLocksHeld ==
  \E t \in Tasks : \E u \in Procs :
    /\ op[t] = "get_subs" /\ cfgLock = t /\ subLock = t
    /\ pc[u] \in {"gc_begin", "gc_fetch"}


\* task t's start_sing_internal returns Ok in this step
StartReturnsOk(t) == pc[t] = "si_probe" /\ res'[t].kind = "ok"

\* C33: at the moment a start returns Ok the handle holds the process that this
\* start spawned and that process is alive
C33_OkMeansOwnProcessRunning ==
  [][\A t \in Procs :
       StartReturnsOk(t) => (handle' = child[t] /\ pstate'[child[t]] = "alive")]_vars


\* C34: the teardown of a start whose probes failed sends no signal to a process
\* that another start spawned and does not clear the handle of such a process
C34_TeardownOnlyOwnProcess ==
  [][\A t \in Procs :
       (teardown[t] /\ pc[t] \in {"st_lock", "st_poll", "st_wait"} /\ pc'[t] # pc[t])
       => /\ \A p \in Pids \ {child[t]} : sig'[p] = sig[p]
          /\ handle \notin {NoProc, child[t]} => handle' = handle]_vars


\* C35: when the detached task of upgrade executes the new binary, no engine
\* process is alive
C35_NoEngineAtExec ==
  [][(execTask /\ ~execTask' /\ pc'[Main] = "replaced") => AliveProcs = {}]_vars


\* ---------------------------------------------------------- config claims
\* C36: whenever no handler holds the config lock, the in-memory config is
\* the config last persisted in full, so a request answered with a save error
\* has left no mutation in memory for a later save to persist
C36_MemoryEqualsPersisted ==
  (cfgLock = Free /\ disk.state = "complete") => cfg = disk.content


\* ---------------------------------------------------------- startup claims
\* C37: main serves the API only after a synthesis of its own has succeeded; a
\* failed synthesis sends it back to the beginning of the next one; and when its
\* start of the engine returns, with success or with any error, it goes on to
\* serve the API
C37_ServesAfterSynthesis ==
  /\ [](pc[Main] = "serving" => gres[Main] = "ok")
  /\ [][/\ (pc[Main] = "gc_write" /\ pc'[Main] # "gc_write" /\ gres'[Main] # "ok")
            => pc'[Main] = "gc_begin"
        /\ (pc[Main] \in {"si_lock", "si_settle", "si_probe", "st_lock", "st_poll", "st_wait"}
              /\ res'[Main] # res[Main])
            => pc'[Main] = "serving"
        /\ (pc[Main] # "serving" /\ pc'[Main] = "serving")
            => (engineCfg.state = "complete" /\ res'[Main].kind # "none")]_vars

\* C37 case: a synthesis of main succeeded, its start of the engine failed the
\* probes and was torn down, and the API is served
C37_ServingAfterRetryAndFailedStart ==
  /\ pc[Main] = "serving"
  /\ gres[Main] = "ok"
  /\ res[Main].kind = "connectivity_failed"
  /\ net["u1"] = OneFeed
  /\ \A t \in Tasks : pc[t] = "idle"
  /\ nspawn = 1 /\ restoreQ = 0

====
